---- MODULE Spec2Model ----
(***************************************************************************)
(* Storefront cart / coupon / checkout logic of the shop application       *)
(* (shop/services.py, shop/models.py, shop/views.py).                       *)
(*                                                                         *)
(* The database tables are sets of rows.  Decimal values are integers that *)
(* count 10^-6 of the currency unit, so that one cent (the two decimal     *)
(* places of the DecimalFields) is Cent = 10000 and the product of a       *)
(* two-place amount with a percentage is exact, as it is with Decimal.     *)
(***************************************************************************)
EXTENDS Integers, Sequences, FiniteSets, TLC

\* ------------------------------------------------------------------ bounds
MaxQty == 2          \* largest quantity of one cart item
MaxCheckouts == 2    \* requests that reach checkout_cart (each saves an address)
MaxTime == 1         \* the clock runs 0..MaxTime
MaxUsers == 5        \* primary keys that the User table gives out
MaxCategories == 3   \* Category rows

\* ------------------------------------------------------- program constants
Cent == 10000        \* decimal_places=2 of the DecimalFields
NULL == -1           \* a null PositiveIntegerField / foreign key

Users == {"u1", "u2"}
Products == {"p1", "p2", "p3"}
Anonymous == "anonymous"    \* request.user of a request that is not logged in
NoUser == "none"            \* Cart.user IS NULL

\* The requests' principals: request.user and the session key of the request.
Clients ==
    { [user |-> "u1", session_key |-> "s1"],
      [user |-> "u2", session_key |-> "s2"] }

\* The principals of the requests that follow one shopper through the shop.
Shoppers == { c \in Clients : c.user = "u1" }

PERCENT == "percent"
FIXED == "fixed"
PENDING == "pending"

\* ---------------------------------------------------------------- state
VARIABLES
    product,      \* Product rows: [Products -> [price, stock, is_active]]
    coupon,       \* Coupon rows: [id -> [code, type, value, active_from, active_to,
                  \*                      usage_limit, used_count, is_active]]
    carts,        \* Cart rows: set of [id, user, session_key, coupon]
    cartItems,    \* CartItem rows: set of [cart, product, quantity, unit_price]
    orders,       \* Order rows: set of [id, user, status, subtotal, discount, total,
                  \*                     shipping_address, coupon]
    orderItems,   \* OrderItem rows: set of [order, product, quantity, unit_price]
    addresses,    \* Address rows: set of [id, user]
    now,          \* timezone.now()
    resp,         \* what the last request answered
    txn,          \* the checkout_cart transaction in flight of each user
    users,        \* User rows: set of [id, username, email, first_name, last_name,
                  \*                    is_active, is_staff, password, date_joined]
    session,      \* the sessions: [session key -> [auth_user_id, dashboard_user_id]]
    page,         \* the page of users that the last UserListView request rendered
    building,     \* the CartManager under construction of each request in flight
    userSeq,      \* the last primary key that the sequence of the User table gave out
    category      \* Category rows: set of [id, name, slug, parent, is_active]

vars ==
    <<product, coupon, carts, cartItems, orders, orderItems, addresses, now, resp, txn,
      users, session, page, building, userSeq, category>>

\* The tables a transaction can roll back, as one value.
DB ==
    [product |-> product, coupon |-> coupon, carts |-> carts, cartItems |-> cartItems,
     orders |-> orders, orderItems |-> orderItems, addresses |-> addresses]

\* ------------------------------------------------------------- helpers
Min(a, b) == IF a <= b THEN a ELSE b

NextId(rows) ==
    IF rows = {} THEN 1
    ELSE 1 + (CHOOSE n \in {r.id : r \in rows} : \A r \in rows : r.id <= n)

\* str.lower() on the letters coupon codes are made of; a code is a sequence
\* of letters.
LowerChar(ch) ==
    CASE ch = "S" -> "s"
      [] ch = "V" -> "v"
      [] ch = "X" -> "x"
      [] ch = "A" -> "a"
      [] ch = "D" -> "d"
      [] ch = "J" -> "j"
      [] OTHER -> ch

Lower(code) == [i \in DOMAIN code |-> LowerChar(code[i])]

\* code__iexact
IExact(a, b) == Lower(a) = Lower(b)

\* ------------------------------------------------------- models.py
\* CartItem.subtotal
ItemSubtotal(item) == item.unit_price * item.quantity

\* Cart.subtotal(): the sum of the items' subtotals (0 for no items)
RECURSIVE SumSubtotals(_)
SumSubtotals(items) ==
    IF items = {} THEN 0
    ELSE LET i == CHOOSE x \in items : TRUE
         IN ItemSubtotal(i) + SumSubtotals(items \ {i})

ItemsOf(db, cart) == {i \in db.cartItems : i.cart = cart}

CartRow(db, cart) == CHOOSE c \in db.carts : c.id = cart

CartSubtotal(db, cart) == SumSubtotals(ItemsOf(db, cart))

\* What a DecimalField(decimal_places=2) column keeps of a Decimal with more
\* places: the value rounded to cents.  The database backend decides how a
\* tie is rounded: half to even (the ORM's quantize) or half away from zero
\* (a numeric(12,2) column).
RoundingModes == {"half_even", "half_up"}

Quantize(x, mode) ==
    LET q == x \div Cent
        r == x % Cent
    IN  IF 2 * r < Cent THEN q * Cent
        ELSE IF 2 * r > Cent THEN (q + 1) * Cent
        ELSE IF mode = "half_even"
             THEN (IF q % 2 = 0 THEN q ELSE q + 1) * Cent
             ELSE (IF x >= 0 THEN q + 1 ELSE q) * Cent

\* ------------------------------------------------------- services.py
\* CartManager._get_or_create_cart: the cart of the user, or of the session
\* of an anonymous request; created when there is none.
get_or_create_cart(db, user, session_key) ==
    LET found == IF user # Anonymous
                 THEN {c \in db.carts : c.user = user}
                 ELSE {c \in db.carts : c.session_key = session_key /\ c.user = NoUser}
        created == [id |-> NextId(db.carts),
                    user |-> IF user # Anonymous THEN user ELSE NoUser,
                    session_key |-> IF user # Anonymous THEN "" ELSE session_key,
                    coupon |-> NULL]
        cart == IF found # {} THEN CHOOSE c \in found : TRUE ELSE created
        saved == IF user # Anonymous /\ session_key # "" /\ cart.session_key = ""
                 THEN [cart EXCEPT !.session_key = session_key]
                 ELSE cart
    IN  [db |-> [db EXCEPT !.carts = (@ \ {cart}) \cup {saved}], cart |-> saved.id]

\* add_product that leaves the unit_price of an item that is there
add_productMutant(db, cart, p, quantity) ==
    LET q == IF quantity < 1 THEN 1 ELSE quantity
        found == {i \in db.cartItems : i.cart = cart /\ i.product = p}
    IN  IF found = {}
        THEN [db EXCEPT !.cartItems = @ \cup
                 {[cart |-> cart, product |-> p, quantity |-> q,
                   unit_price |-> db.product[p].price]}]
        ELSE LET item == CHOOSE i \in found : TRUE
             IN  [db EXCEPT !.cartItems = (@ \ {item}) \cup
                     {[item EXCEPT !.quantity = @ + q]}]

\* CartManager.add_product
add_product(db, cart, p, quantity) ==
    LET q == IF quantity < 1 THEN 1 ELSE quantity
        found == {i \in db.cartItems : i.cart = cart /\ i.product = p}
    IN  IF found = {}
        THEN [db EXCEPT !.cartItems = @ \cup
                 {[cart |-> cart, product |-> p, quantity |-> q,
                   unit_price |-> db.product[p].price]}]
        ELSE LET item == CHOOSE i \in found : TRUE
             IN  [db EXCEPT !.cartItems = (@ \ {item}) \cup
                     {[item EXCEPT !.quantity = @ + q,
                                   !.unit_price = db.product[p].price]}]

\* update_quantity that saves any quantity and deletes nothing
update_quantityMutant(db, cart, p, quantity) ==
    LET found == {i \in db.cartItems : i.cart = cart /\ i.product = p}
    IN  IF found = {} THEN db
        ELSE LET item == CHOOSE i \in found : TRUE
             IN  [db EXCEPT !.cartItems = (@ \ {item}) \cup
                     {[item EXCEPT !.quantity = quantity,
                                   !.unit_price = db.product[p].price]}]

\* CartManager.update_quantity
update_quantity(db, cart, p, quantity) ==
    LET found == {i \in db.cartItems : i.cart = cart /\ i.product = p}
    IN  IF found = {} THEN db
        ELSE LET item == CHOOSE i \in found : TRUE
             IN  IF quantity < 1
                 THEN [db EXCEPT !.cartItems = @ \ {item}]
                 ELSE [db EXCEPT !.cartItems = (@ \ {item}) \cup
                         {[item EXCEPT !.quantity = quantity,
                                       !.unit_price = db.product[p].price]}]

\* remove_product that empties the cart
remove_productMutant(db, cart, p) ==
    [db EXCEPT !.cartItems = {i \in @ : i.cart # cart}]

\* CartManager.remove_product
remove_product(db, cart, p) ==
    [db EXCEPT !.cartItems = {i \in @ : ~(i.cart = cart /\ i.product = p)}]

\* CouponQuery without the is_active filter
CouponQueryMutant(db, code, t) ==
    {id \in DOMAIN db.coupon :
        /\ IExact(db.coupon[id].code, code)
        /\ db.coupon[id].active_from <= t
        /\ db.coupon[id].active_to >= t
        /\ ~(db.coupon[id].usage_limit # NULL
             /\ db.coupon[id].used_count >= db.coupon[id].usage_limit)}

\* The queryset of apply_coupon: the coupons that match the code and can
\* be used at time t.
CouponQuery(db, code, t) ==
    {id \in DOMAIN db.coupon :
        /\ IExact(db.coupon[id].code, code)
        /\ db.coupon[id].is_active
        /\ db.coupon[id].active_from <= t
        /\ db.coupon[id].active_to >= t
        /\ ~(db.coupon[id].usage_limit # NULL
             /\ db.coupon[id].used_count >= db.coupon[id].usage_limit)}

\* .first() of an unordered queryset: the row of least primary key, or None
First(ids) == IF ids = {} THEN NULL ELSE CHOOSE id \in ids : \A o \in ids : id <= o

\* CartManager.apply_coupon: [db, coupon], coupon the value returned
apply_coupon(db, cart, code, t) ==
    LET found == First(CouponQuery(db, code, t))
        row == CartRow(db, cart)
    IN  IF found # NULL
        THEN [db |-> [db EXCEPT !.carts = (@ \ {row}) \cup {[row EXCEPT !.coupon = found]}],
              coupon |-> found]
        ELSE [db |-> db, coupon |-> NULL]

\* CartManager.totals
totals(db, cart) ==
    LET subtotal == CartSubtotal(db, cart)
        c == CartRow(db, cart).coupon
        raw == IF c = NULL THEN 0
               ELSE IF db.coupon[c].type = PERCENT
                    THEN (subtotal \div Cent) * (db.coupon[c].value \div Cent)
                    ELSE db.coupon[c].value
        discount == IF c = NULL THEN 0 ELSE Min(raw, subtotal)
    IN  [subtotal |-> subtotal, discount |-> discount, total |-> subtotal - discount]

\* HasStock without the comparison
HasStockMutant(stock, quantity) == TRUE

\* The check of checkout_cart that raises ValueError when it fails
HasStock(stock, quantity) == ~(stock < quantity)

\* StockAfter taking one unit whatever the quantity
StockAfterMutant(stock, quantity) == stock - 1

\* item.product.stock -= item.quantity
StockAfter(stock, quantity) == stock - quantity

\* NewOrderItem that loses the quantity
NewOrderItemMutant(id, order, item) ==
    [id |-> id, order |-> order, product |-> item.product,
     quantity |-> 1, unit_price |-> item.unit_price]

\* NewOrderItem at the price the product has at checkout
NewOrderItemRepriced(id, order, item) ==
    [id |-> id, order |-> order, product |-> item.product,
     quantity |-> item.quantity, unit_price |-> product[item.product].price]

\* The OrderItem built for a cart item
NewOrderItem(id, order, item) ==
    [id |-> id, order |-> order, product |-> item.product,
     quantity |-> item.quantity, unit_price |-> item.unit_price]

\* The loop of checkout_cart over the items that cart.items.select_related(
\* "product") read: st is [db, raised, items], read the product rows as read.
\* The queryset has no order; the result does not depend on it, a cart
\* holding one item per product.
RECURSIVE ProcessItems(_, _, _, _)
ProcessItems(st, read, remaining, order) ==
    IF remaining = {} THEN st
    ELSE LET item == CHOOSE i \in remaining : TRUE
         IN  IF ~HasStock(read[item.product].stock, item.quantity)
             THEN [st EXCEPT !.raised = TRUE]
             ELSE ProcessItems(
                    [st EXCEPT
                       !.db.product[item.product].stock =
                           StockAfter(read[item.product].stock, item.quantity),
                       !.items = @ \cup
                           {NewOrderItem(Cardinality(st.db.orderItems)
                                           + Cardinality(st.items) + 1, order, item)}],
                    read, remaining \ {item}, order)

\* NewOrder with the status paid
NewOrderMutant(id, user, t, address, c, mode) ==
    [id |-> id, user |-> user, status |-> "paid",
     subtotal |-> Quantize(t.subtotal, mode),
     discount |-> Quantize(t.discount, mode),
     total |-> Quantize(t.total, mode),
     shipping_address |-> address, coupon |-> c]

\* Order.objects.create of checkout_cart: the row as the columns keep it
NewOrder(id, user, t, address, c, mode) ==
    [id |-> id, user |-> user, status |-> PENDING,
     subtotal |-> Quantize(t.subtotal, mode),
     discount |-> Quantize(t.discount, mode),
     total |-> Quantize(t.total, mode),
     shipping_address |-> address, coupon |-> c]

\* ClearCart that keeps the coupon
ClearCartMutant(db, cart) == [db EXCEPT !.cartItems = {i \in @ : i.cart # cart}]

\* The end of checkout_cart: the cart loses its items and its coupon
ClearCart(db, cart) ==
    LET row == CartRow(db, cart)
    IN  [db EXCEPT !.cartItems = {i \in @ : i.cart # cart},
                   !.carts = (@ \ {row}) \cup {[row EXCEPT !.coupon = NULL]}]

\* The body of checkout_cart: [db, raised, order]
checkout_cart_body(db, cart, address, user, mode) ==
    LET mgr == get_or_create_cart(db, user, CartRow(db, cart).session_key)
        order == NewOrder(NextId(mgr.db.orders), user, totals(mgr.db, mgr.cart),
                          address, CartRow(db, cart).coupon, mode)
        db1 == [mgr.db EXCEPT !.orders = @ \cup {order}]
        st == ProcessItems([db |-> db1, raised |-> FALSE, items |-> {}],
                           db1.product, ItemsOf(db1, cart), order.id)
    IN  IF st.raised
        THEN [db |-> st.db, raised |-> TRUE, order |-> NULL]
        ELSE [db |-> ClearCart([st.db EXCEPT !.orderItems = @ \cup st.items], cart),
              raised |-> FALSE, order |-> order.id]

\* Atomic without the rollback
AtomicMutant(db, result) == result

\* @transaction.atomic: an exception leaves the database as it was on entry
Atomic(db, result) == IF result.raised THEN [result EXCEPT !.db = db] ELSE result

checkout_cart(db, cart, address, user, mode) ==
    Atomic(db, checkout_cart_body(db, cart, address, user, mode))

\* ---------------------------------------------------------- views.py
Resp(view, status) == [status |-> status, order |-> NULL, coupon |-> NULL]

\* The tables become those of db.
Commit(db) ==
    /\ product' = db.product
    /\ coupon' = db.coupon
    /\ carts' = db.carts
    /\ cartItems' = db.cartItems
    /\ orders' = db.orders
    /\ orderItems' = db.orderItems
    /\ addresses' = db.addresses

QuantityOf(db, cart, p) ==
    LET found == {i \in db.cartItems : i.cart = cart /\ i.product = p}
    IN  IF found = {} THEN 0 ELSE (CHOOSE i \in found : TRUE).quantity

\* AddToCartView.post
AddToCartView(c, p, q) ==
    /\ UNCHANGED <<now, category, txn, users, session, page, building, userSeq>>
    /\ IF ~product[p].is_active
       THEN /\ resp' = Resp("add", "404")
            /\ Commit(DB)
       ELSE IF q < 1
       THEN /\ resp' = Resp("add", "invalid")
            /\ Commit(DB)
       ELSE LET mgr == get_or_create_cart(DB, c.user, c.session_key)
            IN  /\ QuantityOf(mgr.db, mgr.cart, p) + q <= MaxQty
                /\ resp' = Resp("add", "ok")
                /\ Commit(add_product(mgr.db, mgr.cart, p, q))

\* QuickAddToCartView.post
QuickAddToCartView(c, p) ==
    /\ UNCHANGED <<now, category, txn, users, session, page, building, userSeq>>
    /\ IF ~product[p].is_active
       THEN /\ resp' = Resp("quick_add", "404")
            /\ Commit(DB)
       ELSE LET mgr == get_or_create_cart(DB, c.user, c.session_key)
            IN  /\ QuantityOf(mgr.db, mgr.cart, p) + 1 <= MaxQty
                /\ resp' = Resp("quick_add", "ok")
                /\ Commit(add_product(mgr.db, mgr.cart, p, 1))

\* CartView.post, action "update"
CartViewUpdate(c, p, q) ==
    LET mgr == get_or_create_cart(DB, c.user, c.session_key)
        qty == IF q > 1 THEN q ELSE 1
    IN  /\ UNCHANGED <<now, category, txn, users, session, page, building, userSeq>>
        /\ IF ~product[p].is_active
           THEN /\ resp' = Resp("update", "404")
                /\ Commit(mgr.db)
           ELSE /\ resp' = Resp("update", "ok")
                /\ Commit(update_quantity(mgr.db, mgr.cart, p, qty))

\* CartView.post, action "remove"
CartViewRemove(c, p) ==
    LET mgr == get_or_create_cart(DB, c.user, c.session_key)
    IN  /\ UNCHANGED <<now, category, txn, users, session, page, building, userSeq>>
        /\ IF ~product[p].is_active
           THEN /\ resp' = Resp("remove", "404")
                /\ Commit(mgr.db)
           ELSE /\ resp' = Resp("remove", "ok")
                /\ Commit(remove_product(mgr.db, mgr.cart, p))

\* CartView.post, action "coupon"; an empty code does not pass CouponApplyForm
CartViewCoupon(c, code) ==
    LET mgr == get_or_create_cart(DB, c.user, c.session_key)
        res == apply_coupon(mgr.db, mgr.cart, code, now)
    IN  /\ UNCHANGED <<now, category, txn, users, session, page, building, userSeq>>
        /\ IF code = <<>>
           THEN /\ resp' = Resp("coupon", "invalid")
                /\ Commit(mgr.db)
           ELSE /\ resp' = [Resp("coupon", IF res.coupon # NULL THEN "applied" ELSE "error")
                              EXCEPT !.coupon = res.coupon]
                /\ Commit(res.db)

\* AddressForm.save in CheckoutView.post: a new Address row of the user
SaveAddress(db, user) ==
    LET address == [id |-> NextId(db.addresses), user |-> user]
    IN  [db |-> [db EXCEPT !.addresses = @ \cup {address}], address |-> address.id]

\* CheckoutView.post
CheckoutView(c, valid, mode) ==
    /\ UNCHANGED <<now, category, txn, users, session, page, building, userSeq>>
    /\ IF c.user = Anonymous
       THEN /\ resp' = Resp("checkout", "login")
            /\ Commit(DB)
       ELSE LET mgr == get_or_create_cart(DB, c.user, c.session_key)
            IN  IF ItemsOf(mgr.db, mgr.cart) = {}
                THEN /\ resp' = Resp("checkout", "empty")
                     /\ Commit(mgr.db)
                ELSE IF ~valid
                THEN /\ resp' = Resp("checkout", "invalid")
                     /\ Commit(mgr.db)
                ELSE LET adr == SaveAddress(mgr.db, c.user)
                         res == checkout_cart(adr.db, mgr.cart, adr.address, c.user, mode)
                     IN  /\ Cardinality(addresses) < MaxCheckouts
                         /\ resp' = IF res.raised
                                    THEN Resp("checkout", "ValueError")
                                    ELSE [Resp("checkout", "created") EXCEPT !.order = res.order]
                         /\ Commit(res.db)

\* Time passes.
Tick ==
    /\ now < MaxTime
    /\ now' = now + 1
    /\ UNCHANGED <<product, coupon, carts, cartItems, orders, orderItems, addresses, resp, txn,
                 users, session, page, building, userSeq, category>>

\* ------------------------------------------------------------ the shop
\* Coupon codes as typed into the form.
Codes == { <<>>, <<"S", "V">>, <<"s", "v">>, <<"X">>, <<"x", "x">>, <<"n">> }

Money(cents) == cents * Cent

\* The products of the shop as it opens.
InitialProducts ==
    [p \in Products |->
                    IF p = "p1" THEN [price |-> Money(1), stock |-> 2, is_active |-> TRUE]
                    ELSE IF p = "p2" THEN [price |-> Money(2), stock |-> 1, is_active |-> TRUE]
                    ELSE [price |-> Money(3), stock |-> 1, is_active |-> FALSE]]

\* The coupons of the shop: one that matches another but for the case and
\* expires first, one inactive, one used up.
InitialCoupons ==
    [id \in 1..4 |->
                    IF id = 1 THEN [code |-> <<"S", "V">>, type |-> PERCENT, value |-> Money(5000),
                                    active_from |-> 0, active_to |-> 0,
                                    usage_limit |-> 1, used_count |-> 0, is_active |-> TRUE]
                    ELSE IF id = 2 THEN [code |-> <<"s", "v">>, type |-> FIXED, value |-> Money(2),
                                    active_from |-> 0, active_to |-> 9,
                                    usage_limit |-> NULL, used_count |-> 0, is_active |-> TRUE]
                    ELSE IF id = 3 THEN [code |-> <<"X">>, type |-> FIXED, value |-> Money(1),
                                    active_from |-> 0, active_to |-> 9,
                                    usage_limit |-> NULL, used_count |-> 0, is_active |-> FALSE]
                    ELSE [code |-> <<"X", "X">>, type |-> FIXED, value |-> Money(1),
                                    active_from |-> 0, active_to |-> 9,
                                    usage_limit |-> 1, used_count |-> 1, is_active |-> TRUE]]

\* The shop opens with one root category, which the products are in.
InitialCategories ==
    {[id |-> 1, name |-> <<"a">>, slug |-> <<"a">>, parent |-> NULL, is_active |-> TRUE]}

\* The users of the shop: two shoppers, a staff user, a staff user that was
\* deactivated.  A name is a sequence of characters, as a coupon code is.
InitialUsers ==
    { [id |-> "u1", username |-> <<"j", "d">>, email |-> <<"j", "@", "x">>,
       first_name |-> <<"J">>, last_name |-> <<"D">>,
       is_active |-> TRUE, is_staff |-> FALSE, password |-> "pw1", date_joined |-> 1],
      [id |-> "u2", username |-> <<"s", "v">>, email |-> <<"s", "@", "x">>,
       first_name |-> <<"S">>, last_name |-> <<"V">>,
       is_active |-> TRUE, is_staff |-> FALSE, password |-> "pw2", date_joined |-> 2],
      [id |-> "u3", username |-> <<"a">>, email |-> <<"a", "@", "x">>,
       first_name |-> <<"A">>, last_name |-> <<"d">>,
       is_active |-> TRUE, is_staff |-> TRUE, password |-> "pw3", date_joined |-> 3],
      [id |-> "u4", username |-> <<"x">>, email |-> <<"X", "@", "y">>,
       first_name |-> <<"X">>, last_name |-> <<>>,
       is_active |-> FALSE, is_staff |-> TRUE, password |-> "pw4", date_joined |-> 4] }

\* The sessions, one of each browser (the key that names a session changes
\* at login and logout; the carts of the logged-in users do not depend on it).
SessionKeys == {"s1", "s2"}

\* The primary keys of the User table, in the order the sequence gives them out.
UserIds == <<"u1", "u2", "u3", "u4", "u5", "u6", "u7", "u8", "u9", "u10", "u11", "u12", "u13">>

\* Sessions that hold nothing.
NoSessions == [k \in SessionKeys |-> [auth_user_id |-> NoUser, dashboard_user_id |-> NoUser]]

\* No user list rendered.
NoPage ==
    [status |-> "none", GET |-> [q |-> <<>>, status |-> <<>>, page |-> 0],
     users |-> <<>>, filtered |-> {}, count |-> 0, num_pages |-> 0]

\* The requests that can be in flight while their CartManager is built.
Requests == {"r1", "r2"}

\* No CartManager under construction.
NoRequests == [r \in Requests |-> [pc |-> "idle", user |-> Anonymous, session_key |-> "", cart |-> NULL]]

\* No checkout_cart in flight.
Idle ==
    [pc |-> "idle", cart |-> NULL, order |-> NULL,
     read |-> InitialProducts, remaining |-> <<>>,
     writes |-> [p \in Products |-> NULL], items |-> {}]

Init ==
    /\ product = InitialProducts
    /\ coupon = InitialCoupons
    /\ carts = {}
    /\ cartItems = {}
    /\ orders = {}
    /\ orderItems = {}
    /\ addresses = {}
    /\ now = 0
    /\ resp = Resp("none", "none")
    /\ txn = [u \in Users |-> Idle]
    /\ users = InitialUsers
    /\ session = NoSessions
    /\ page = NoPage
    /\ building = NoRequests
    /\ userSeq = Cardinality(InitialUsers)
    /\ category = InitialCategories

Next ==
    \/ \E c \in Shoppers, p \in Products, q \in 0..MaxQty : AddToCartView(c, p, q)
    \/ \E c \in Shoppers, p \in Products : QuickAddToCartView(c, p)
    \/ \E c \in Shoppers, p \in Products, q \in 0..MaxQty : CartViewUpdate(c, p, q)
    \/ \E c \in Shoppers, p \in Products : CartViewRemove(c, p)
    \/ \E c \in Shoppers, code \in Codes : CartViewCoupon(c, code)
    \/ \E c \in Shoppers, valid \in BOOLEAN, mode \in RoundingModes :
          CheckoutView(c, valid, mode)

Spec == Init /\ [][Next]_vars

\* The requests that fill a cart and apply coupons to it, as time passes and
\* coupons expire.
NextCoupon ==
    \/ \E c \in Shoppers, p \in Products, q \in 0..MaxQty : AddToCartView(c, p, q)
    \/ \E c \in Shoppers, p \in Products : CartViewRemove(c, p)
    \/ \E c \in Shoppers, code \in Codes : CartViewCoupon(c, code)
    \/ Tick

SpecCoupon == Init /\ [][NextCoupon]_vars

\* The requests that take a cart with a coupon to an order, as time passes
\* between them.
NextExpiry ==
    \/ \E c \in Shoppers, p \in Products, q \in 0..MaxQty : AddToCartView(c, p, q)
    \/ \E c \in Shoppers, code \in Codes : CartViewCoupon(c, code)
    \/ \E c \in Shoppers, valid \in BOOLEAN, mode \in RoundingModes :
          CheckoutView(c, valid, mode)
    \/ Tick

SpecExpiry == Init /\ [][NextExpiry]_vars

\* ----------------------------------------------- any storable coupon
\* Coupon.value is a DecimalField without validators: the values a row can
\* hold include negative ones and percentages above 100.
StorableValues == { Money(-2), Money(0), Money(1), Money(5000), Money(15000) }

\* The shop with one coupon, of any type and any storable value, that is
\* active and matches the code "x".
InitTotals ==
    /\ product = InitialProducts
    /\ \E type \in {PERCENT, FIXED}, value \in StorableValues :
          coupon = [id \in 1..1 |->
                      [code |-> <<"X">>, type |-> type, value |-> value,
                       active_from |-> 0, active_to |-> 9,
                       usage_limit |-> NULL, used_count |-> 0, is_active |-> TRUE]]
    /\ carts = {}
    /\ cartItems = {}
    /\ orders = {}
    /\ orderItems = {}
    /\ addresses = {}
    /\ now = 0
    /\ resp = Resp("none", "none")
    /\ txn = [u \in Users |-> Idle]
    /\ users = InitialUsers
    /\ session = NoSessions
    /\ page = NoPage
    /\ building = NoRequests
    /\ userSeq = Cardinality(InitialUsers)
    /\ category = InitialCategories

\* The requests that change a cart and its totals.
NextTotals ==
    \/ \E c \in Shoppers, p \in Products, q \in 0..MaxQty : AddToCartView(c, p, q)
    \/ \E c \in Shoppers, p \in Products, q \in 0..MaxQty : CartViewUpdate(c, p, q)
    \/ \E c \in Shoppers, p \in Products : CartViewRemove(c, p)
    \/ \E c \in Shoppers, code \in Codes : CartViewCoupon(c, code)

SpecTotals == InitTotals /\ [][NextTotals]_vars

\* ------------------------------- checkout_cart, statement by statement
\* Requests of different users run checkout_cart at the same time.  Each
\* statement reads the rows committed when it runs, a transaction's writes
\* are seen by the others when it commits, and a row written by one
\* transaction is locked against the writes of the others until then.
MaxOf(S) == IF S = {} THEN 0 ELSE CHOOSE x \in S : \A y \in S : y <= x

InFlight == {u \in Users : txn[u].pc # "idle"}

\* The primary key of an inserted Order: past every key handed out to a row
\* or to a transaction in flight.
FreshOrderId == 1 + MaxOf({o.id : o \in orders} \cup {txn[u].order.id : u \in InFlight})

\* The orders in which a queryset without order_by can yield the rows.
Orderings(S) ==
    {seq \in [1..Cardinality(S) -> S] :
        \A i, j \in 1..Cardinality(S) : i # j => seq[i] # seq[j]}

\* bulk_create: the rows get their primary keys
RECURSIVE Numbered(_, _)
Numbered(items, base) ==
    IF items = {} THEN {}
    ELSE LET i == CHOOSE x \in items : TRUE
         IN  {[i EXCEPT !.id = base + 1]} \cup Numbered(items \ {i}, base + 1)

\* CheckoutView.post up to Order.objects.create in checkout_cart: the cart is
\* not empty, the forms are valid, the address is saved, the totals are
\* computed and the order row is inserted in the transaction.
CheckoutBegin(c, mode) ==
    LET mgr == get_or_create_cart(DB, c.user, c.session_key)
        adr == SaveAddress(mgr.db, c.user)
        mgr2 == get_or_create_cart(adr.db, c.user, CartRow(adr.db, mgr.cart).session_key)
        order == NewOrder(FreshOrderId, c.user, totals(mgr2.db, mgr2.cart), adr.address,
                          CartRow(mgr.db, mgr.cart).coupon, mode)
    IN  /\ c.user # Anonymous
        /\ txn[c.user].pc = "idle"
        /\ ItemsOf(mgr.db, mgr.cart) # {}
        /\ Cardinality(addresses) < MaxCheckouts
        /\ Commit(mgr2.db)
        /\ txn' = [txn EXCEPT ![c.user] =
                      [Idle EXCEPT !.pc = "created", !.cart = mgr.cart, !.order = order]]
        /\ UNCHANGED <<now, category, resp, users, session, page, building, userSeq>>

\* for item in cart.items.select_related("product"): the query runs and
\* reads the items with their products.
TxnReadItems(u) ==
    /\ txn[u].pc = "created"
    /\ \E seq \in Orderings(ItemsOf(DB, txn[u].cart)) :
          txn' = [txn EXCEPT ![u].pc = "loop", ![u].read = product, ![u].remaining = seq]
    /\ UNCHANGED <<product, coupon, carts, cartItems, orders, orderItems, addresses, now, category, resp,
                 users, session, page, building, userSeq>>

\* The row of product p is written by a transaction other than u's.
LockedByOther(u, p) == \E v \in Users \ {u} : txn[v].writes[p] # NULL

\* One turn of the loop: the check on the stock as read, then the save of
\* the stock, which waits for the row; ValueError rolls the transaction back.
TxnProcessItem(u) ==
    /\ txn[u].pc = "loop"
    /\ txn[u].remaining # <<>>
    /\ LET item == Head(txn[u].remaining)
           stock == txn[u].read[item.product].stock
       IN  IF ~HasStock(stock, item.quantity)
           THEN /\ txn' = [txn EXCEPT ![u] = Idle]
                /\ resp' = Resp("checkout", "ValueError")
           ELSE /\ ~LockedByOther(u, item.product)
                /\ txn' = [txn EXCEPT
                             ![u].remaining = Tail(@),
                             ![u].writes[item.product] = StockAfter(stock, item.quantity),
                             ![u].items = @ \cup {NewOrderItem(NULL, txn[u].order.id, item)}]
                /\ UNCHANGED resp
    /\ UNCHANGED <<product, coupon, carts, cartItems, orders, orderItems, addresses, now, category,
                 users, session, page, building, userSeq>>

\* The end of checkout_cart and the commit: the order, its items and the
\* stocks written become visible, the cart is cleared.
TxnCommit(u) ==
    /\ txn[u].pc = "loop"
    /\ txn[u].remaining = <<>>
    /\ LET db1 == [DB EXCEPT
                     !.orders = @ \cup {txn[u].order},
                     !.orderItems = @ \cup Numbered(txn[u].items, Cardinality(@)),
                     !.product = [p \in Products |->
                                    IF txn[u].writes[p] # NULL
                                    THEN [@[p] EXCEPT !.stock = txn[u].writes[p]]
                                    ELSE @[p]]]
       IN  Commit(ClearCart(db1, txn[u].cart))
    /\ txn' = [txn EXCEPT ![u] = Idle]
    /\ resp' = [Resp("checkout", "created") EXCEPT !.order = txn[u].order.id]
    /\ UNCHANGED <<now, category, users, session, page, building, userSeq>>

\* u waits for a row that v has written.
WaitsFor(u, v) ==
    /\ txn[u].pc = "loop"
    /\ txn[u].remaining # <<>>
    /\ LET item == Head(txn[u].remaining)
       IN  /\ HasStock(txn[u].read[item.product].stock, item.quantity)
           /\ txn[v].writes[item.product] # NULL

\* Two transactions wait for each other's rows: the database ends one with
\* an error, which the view does not catch.
TxnDeadlock(u) ==
    /\ \E v \in Users \ {u} : WaitsFor(u, v) /\ WaitsFor(v, u)
    /\ txn' = [txn EXCEPT ![u] = Idle]
    /\ resp' = Resp("checkout", "500")
    /\ UNCHANGED <<product, coupon, carts, cartItems, orders, orderItems, addresses, now, category,
                 users, session, page, building, userSeq>>

\* The products a cart can hold.
Buyable == {p \in Products : InitialProducts[p].is_active}

\* Every user has filled a cart; no checkout has begun.
InitConc ==
    /\ product = InitialProducts
    /\ coupon = InitialCoupons
    /\ carts = {[id |-> IF c.user = "u1" THEN 1 ELSE 2, user |-> c.user,
                 session_key |-> c.session_key, coupon |-> NULL] : c \in Clients}
    /\ \E q \in [Users \X Buyable -> 0..MaxQty] :
          cartItems = {[cart |-> IF k[1] = "u1" THEN 1 ELSE 2, product |-> k[2],
                        quantity |-> q[k], unit_price |-> InitialProducts[k[2]].price] :
                          k \in {x \in Users \X Buyable : q[x] > 0}}
    /\ orders = {}
    /\ orderItems = {}
    /\ addresses = {}
    /\ now = 0
    /\ resp = Resp("none", "none")
    /\ txn = [u \in Users |-> Idle]
    /\ users = InitialUsers
    /\ session = NoSessions
    /\ page = NoPage
    /\ building = NoRequests
    /\ userSeq = Cardinality(InitialUsers)
    /\ category = InitialCategories

NextConc ==
    \/ \E c \in Clients, mode \in RoundingModes : CheckoutBegin(c, mode)
    \/ \E u \in Users : TxnReadItems(u)
    \/ \E u \in Users : TxnProcessItem(u)
    \/ \E u \in Users : TxnCommit(u)
    \/ \E u \in Users : TxnDeadlock(u)

SpecConc == InitConc /\ [][NextConc]_vars

\* ============================================ the dashboard (crudproject)
\* The tables that the requests of the dashboard and of the logins leave
\* alone.
ShopUnchanged ==
    UNCHANGED <<product, coupon, carts, cartItems, orders, orderItems, addresses>>

\* str.strip() on the characters of a query: the blanks at both ends go.
RECURSIVE Strip(_)
Strip(str) ==
    IF str = <<>> THEN str
    ELSE IF Head(str) = " " THEN Strip(Tail(str))
    ELSE IF str[Len(str)] = " " THEN Strip(SubSeq(str, 1, Len(str) - 1))
    ELSE str

\* field__icontains=q
IContains(field, q) ==
    \E i \in 1..(Len(field) - Len(q) + 1) :
       SubSeq(Lower(field), i, i + Len(q) - 1) = Lower(q)

\* StaffUser that does not look at is_active
StaffUserMutant(rows, id) == {u \in rows : u.id = id /\ u.is_staff}

\* User.objects.filter(pk=dashboard_user_id, is_staff=True, is_active=True)
StaffUser(rows, id) == {u \in rows : u.id = id /\ u.is_staff /\ u.is_active}

\* StaffRequiredMixin.dispatch up to the call of the view's handler:
\* [allowed, session, status], session the session as the request leaves it.
dispatch(rows, sess) ==
    IF sess.dashboard_user_id = NoUser
    THEN [allowed |-> FALSE, session |-> sess, status |-> "login"]
    ELSE IF StaffUser(rows, sess.dashboard_user_id) = {}
    THEN [allowed |-> FALSE, session |-> [sess EXCEPT !.dashboard_user_id = NoUser],
          status |-> "expired"]
    ELSE [allowed |-> TRUE, session |-> sess, status |-> "ok"]

\* AuthenticationForm.clean: the user of the credentials, as ModelBackend
\* authenticates them (the username as written, the password, is_active);
\* a user that the dashboard created has no password to log in with.
Authenticate(rows, username, password) ==
    {u \in rows : /\ u.username = username
                  /\ u.password # ""
                  /\ u.password = password
                  /\ u.is_active}

\* GrantsSession that does not look at is_staff
GrantsSessionMutant(user) == TRUE

\* The test of DashboardLoginView.form_valid
GrantsSession(user) == user.is_staff

\* DashboardLoginView: dispatch and the POST of the login form
DashboardLoginView(k, username, password) ==
    LET found == Authenticate(users, username, password)
        user == CHOOSE u \in found : TRUE
    IN  /\ ShopUnchanged
        /\ UNCHANGED <<now, category, txn, users, page, building, userSeq>>
        /\ IF session[k].dashboard_user_id # NoUser
           THEN /\ resp' = Resp("dashboard_login", "redirect")
                /\ UNCHANGED session
           ELSE IF found = {}
           THEN /\ resp' = Resp("dashboard_login", "invalid")
                /\ UNCHANGED session
           ELSE IF ~GrantsSession(user)
           THEN /\ resp' = Resp("dashboard_login", "not_staff")
                /\ UNCHANGED session
           ELSE /\ resp' = Resp("dashboard_login", "welcome")
                /\ session' = [session EXCEPT ![k].dashboard_user_id = user.id]

\* DashboardLogoutView.post / .get
DashboardLogoutView(k) ==
    /\ ShopUnchanged
    /\ UNCHANGED <<now, category, txn, users, page, building, userSeq>>
    /\ resp' = Resp("dashboard_logout", "logged_out")
    /\ session' = [session EXCEPT ![k].dashboard_user_id = NoUser]

\* django.contrib.auth.login: a session of another user is flushed, the
\* data of any other session is kept; the user is recorded.
AuthLogin(sess, id) ==
    IF sess.auth_user_id # NoUser /\ sess.auth_user_id # id
    THEN [auth_user_id |-> id, dashboard_user_id |-> NoUser]
    ELSE [sess EXCEPT !.auth_user_id = id]

\* StoreLoginView.post
StoreLoginView(k, username, password) ==
    LET found == Authenticate(users, username, password)
        user == CHOOSE u \in found : TRUE
    IN  /\ ShopUnchanged
        /\ UNCHANGED <<now, category, txn, users, page, building, userSeq>>
        /\ IF found = {}
           THEN /\ resp' = Resp("login", "invalid")
                /\ UNCHANGED session
           ELSE /\ resp' = Resp("login", "welcome")
                /\ session' = [session EXCEPT ![k] = AuthLogin(@, user.id)]

\* StoreLogoutView.post: django.contrib.auth.logout flushes the session
StoreLogoutView(k) ==
    /\ ShopUnchanged
    /\ UNCHANGED <<now, category, txn, users, page, building, userSeq>>
    /\ resp' = Resp("logout", "logged_out")
    /\ session' = [session EXCEPT ![k] = [auth_user_id |-> NoUser, dashboard_user_id |-> NoUser]]

\* request.user of a request of the storefront: the user of the session
\* when the row is there and active, AnonymousUser otherwise.
RequestUser(k) ==
    IF \E u \in users : u.id = session[k].auth_user_id /\ u.is_active
    THEN session[k].auth_user_id
    ELSE Anonymous

\* The principal of a request of the storefront that carries session k.
ClientOf(k) == [user |-> RequestUser(k), session_key |-> k]

\* An e-mail address as EmailField takes it: one "@" with something on both
\* sides, no blank.
ValidEmail(email) ==
    \E i \in 2..(Len(email) - 1) :
       /\ email[i] = "@"
       /\ \A j \in DOMAIN email : email[j] = "@" => j = i
       /\ \A j \in DOMAIN email : email[j] # " "

\* EmailInUse that compares the addresses as written
EmailInUseExact(rows, instance, email) ==
    \E u \in rows : u.email = email /\ ~(instance # NoUser /\ u.id = instance)

\* qs.exists() of UserForm.clean_email
EmailInUse(rows, instance, email) ==
    \E u \in rows : IExact(u.email, email) /\ ~(instance # NoUser /\ u.id = instance)

\* UserForm.is_valid() for the instance (NoUser for a new user): a username,
\* unique as written; an e-mail address, stripped, not empty, well formed and
\* not in use whatever the case.
UserFormValid(rows, instance, f) ==
    /\ f.username # <<>>
    /\ ~\E u \in rows : u.username = f.username /\ u.id # instance
    /\ Strip(f.email) # <<>>
    /\ ValidEmail(Strip(f.email))
    /\ ~EmailInUse(rows, instance, Strip(f.email))

\* SavedUser that does not write is_staff
SavedUserMutant(row, f) ==
    [row EXCEPT !.username = f.username, !.email = Strip(f.email),
                !.first_name = f.first_name, !.last_name = f.last_name,
                !.is_active = f.is_active]

\* form.save() of a UserForm: the fields of the form on the row
SavedUser(row, f) ==
    [row EXCEPT !.username = f.username, !.email = Strip(f.email),
                !.first_name = f.first_name, !.last_name = f.last_name,
                !.is_active = f.is_active, !.is_staff = f.is_staff]

\* The row of a new User before the form fills it: the next primary key,
\* no password, joined now.
NewUser(seq) ==
    [id |-> UserIds[seq + 1], username |-> <<>>, email |-> <<>>,
     first_name |-> <<>>, last_name |-> <<>>, is_active |-> TRUE, is_staff |-> FALSE,
     password |-> "", date_joined |-> seq + 1]

\* What a request answers that StaffRequiredMixin.dispatch turned away.
TurnedAway(k, d) ==
    /\ session' = [session EXCEPT ![k] = d.session]
    /\ resp' = Resp("dashboard", d.status)
    /\ ShopUnchanged
    /\ UNCHANGED <<now, category, txn, users, page, building, userSeq>>

\* UserCreateView.post
UserCreateView(k, f) ==
    LET d == dispatch(users, session[k])
    IN  IF ~d.allowed THEN TurnedAway(k, d)
        ELSE /\ userSeq < MaxUsers
             /\ ShopUnchanged
             /\ UNCHANGED <<now, category, txn, session, page, building>>
             /\ IF ~UserFormValid(users, NoUser, f)
                THEN /\ resp' = Resp("user_create", "invalid")
                     /\ UNCHANGED <<users, userSeq>>
                ELSE /\ resp' = Resp("user_create", "created")
                     /\ users' = users \cup {SavedUser(NewUser(userSeq), f)}
                     /\ userSeq' = userSeq + 1

\* UserUpdateView.post
UserUpdateView(k, pk, f) ==
    LET d == dispatch(users, session[k])
        found == {u \in users : u.id = pk}
        row == CHOOSE u \in found : TRUE
    IN  IF ~d.allowed THEN TurnedAway(k, d)
        ELSE /\ ShopUnchanged
             /\ UNCHANGED <<now, category, txn, session, page, building, userSeq>>
             /\ IF found = {}
                THEN /\ resp' = Resp("user_update", "404")
                     /\ UNCHANGED users
                ELSE IF ~UserFormValid(users, pk, f)
                THEN /\ resp' = Resp("user_update", "invalid")
                     /\ UNCHANGED users
                ELSE /\ resp' = Resp("user_update", "updated")
                     /\ users' = (users \ {row}) \cup {SavedUser(row, f)}

\* on_delete=PROTECT of Order.user and of Order.shipping_address: the rows
\* that keep the user from being deleted.
Protecting(db, pk) ==
    {o \in db.orders :
        \/ o.user = pk
        \/ \E a \in db.addresses : a.user = pk /\ o.shipping_address = a.id}

\* on_delete=CASCADE of Address.user, Cart.user and CartItem.cart: the
\* tables without the rows of the user.
Cascade(db, pk) ==
    LET gone == {c.id : c \in {x \in db.carts : x.user = pk}}
    IN  [db EXCEPT !.addresses = {a \in @ : a.user # pk},
                   !.carts = {c \in @ : c.user # pk},
                   !.cartItems = {i \in @ : i.cart \notin gone}]

\* UserDeleteView.delete (the POST); ProtectedError is not caught.
UserDeleteView(k, pk) ==
    LET d == dispatch(users, session[k])
        found == {u \in users : u.id = pk}
    IN  IF ~d.allowed THEN TurnedAway(k, d)
        ELSE /\ UNCHANGED <<now, category, txn, session, page, building, userSeq>>
             /\ IF found = {}
                THEN /\ resp' = Resp("user_delete", "404")
                     /\ ShopUnchanged
                     /\ UNCHANGED users
                ELSE IF Protecting(DB, pk) # {}
                THEN /\ resp' = Resp("user_delete", "ProtectedError")
                     /\ ShopUnchanged
                     /\ UNCHANGED users
                ELSE /\ resp' = Resp("user_delete", "deleted")
                     /\ Commit(Cascade(DB, pk))
                     /\ users' = users \ found

\* The values of the status parameter that filter
ACTIVE == <<"a", "c", "t", "i", "v", "e">>
INACTIVE == <<"i", "n", "a", "c", "t", "i", "v", "e">>

\* paginate_by of UserListView
paginate_by == 10

\* UserQuery that searches for q as typed, blanks included
UserQueryMutant(rows, q, status) ==
    LET searched == IF q # <<>>
                    THEN {u \in rows : \/ IContains(u.username, q)
                                       \/ IContains(u.first_name, q)
                                       \/ IContains(u.last_name, q)
                                       \/ IContains(u.email, q)}
                    ELSE rows
    IN  IF Strip(status) = ACTIVE THEN {u \in searched : u.is_active}
        ELSE IF Strip(status) = INACTIVE THEN {u \in searched : ~u.is_active}
        ELSE searched

\* UserListView.get_queryset before the order_by: q and status are the
\* parameters of the request as typed.
UserQuery(rows, q, status) ==
    LET term == Strip(q)
        searched == IF term # <<>>
                    THEN {u \in rows : \/ IContains(u.username, term)
                                       \/ IContains(u.first_name, term)
                                       \/ IContains(u.last_name, term)
                                       \/ IContains(u.email, term)}
                    ELSE rows
    IN  IF Strip(status) = ACTIVE THEN {u \in searched : u.is_active}
        ELSE IF Strip(status) = INACTIVE THEN {u \in searched : ~u.is_active}
        ELSE searched

\* order_by("-date_joined"): the primary keys of the rows, the last joined first
RECURSIVE Newest(_)
Newest(rows) ==
    IF rows = {} THEN <<>>
    ELSE LET u == CHOOSE x \in rows : \A y \in rows : y.date_joined <= x.date_joined
         IN  <<u.id>> \o Newest(rows \ {u})

\* Paginator.num_pages: at least one page, the first may be empty
NumPages(count, per_page) ==
    IF count = 0 THEN 1 ELSE (count + per_page - 1) \div per_page

\* Paginator.page(number).object_list
PageOf(list, number, per_page) ==
    SubSeq(list, (number - 1) * per_page + 1, Min(number * per_page, Len(list)))

\* UserListView.get: the page of the filtered users that the request asks for;
\* a page past the last is not found.
UserListView(k, q, status, number) ==
    LET d == dispatch(users, session[k])
        list == Newest(UserQuery(users, q, status))
    IN  IF ~d.allowed
        THEN /\ session' = [session EXCEPT ![k] = d.session]
             /\ resp' = Resp("dashboard", d.status)
             /\ page' = NoPage
             /\ ShopUnchanged
             /\ UNCHANGED <<now, category, txn, users, building, userSeq>>
        ELSE /\ ShopUnchanged
             /\ UNCHANGED <<now, category, txn, users, session, building, userSeq>>
             /\ IF number > NumPages(Len(list), paginate_by)
                THEN /\ resp' = Resp("user_list", "404")
                     /\ page' = NoPage
                ELSE /\ resp' = Resp("user_list", "ok")
                     /\ page' = [status |-> "ok",
                                 GET |-> [q |-> q, status |-> status, page |-> number],
                                 users |-> PageOf(list, number, paginate_by),
                                 filtered |-> {list[i] : i \in DOMAIN list},
                                 count |-> Len(list),
                                 num_pages |-> NumPages(Len(list), paginate_by)]

\* -------------------------------------------- the requests of the dashboard
\* Usernames and passwords as typed into a login form.
Credentials ==
    { [username |-> <<"a">>, password |-> "pw3"],
      [username |-> <<"a">>, password |-> "pw1"],
      [username |-> <<"j", "d">>, password |-> "pw1"],
      [username |-> <<"x">>, password |-> "pw4"] }

\* The data of a UserForm as posted.
UserForms ==
    { [username |-> <<"n">>, email |-> <<" ", "n", "@", "x">>,
       first_name |-> <<"N">>, last_name |-> <<>>, is_active |-> TRUE, is_staff |-> FALSE],
      [username |-> <<"a">>, email |-> <<"a", "@", "x">>,
       first_name |-> <<"A">>, last_name |-> <<"d">>, is_active |-> FALSE, is_staff |-> TRUE],
      [username |-> <<"j", "d">>, email |-> <<"J", "@", "X">>,
       first_name |-> <<"J", "a">>, last_name |-> <<"D">>, is_active |-> TRUE, is_staff |-> TRUE],
      [username |-> <<"k">>, email |-> <<"k">>,
       first_name |-> <<>>, last_name |-> <<>>, is_active |-> TRUE, is_staff |-> FALSE] }

\* The primary keys that the requests name: a customer, the staff user and
\* the users that the dashboard creates.
UserKeys == {"u1", "u3"} \cup {UserIds[i] : i \in (Cardinality(InitialUsers) + 1)..MaxUsers}

\* The logins of the dashboard and the requests that create, update and
\* delete users.
NextStaff ==
    \/ \E k \in SessionKeys, c \in Credentials : DashboardLoginView(k, c.username, c.password)
    \/ \E k \in SessionKeys : DashboardLogoutView(k)
    \/ \E k \in SessionKeys, f \in UserForms : UserCreateView(k, f)
    \/ \E k \in SessionKeys, pk \in UserKeys, f \in UserForms : UserUpdateView(k, pk, f)
    \/ \E k \in SessionKeys, pk \in UserKeys : UserDeleteView(k, pk)

SpecStaff == Init /\ [][NextStaff]_vars

\* The logins and logouts of the dashboard and of the storefront.
NextLogin ==
    \/ \E k \in SessionKeys, c \in Credentials : DashboardLoginView(k, c.username, c.password)
    \/ \E k \in SessionKeys : DashboardLogoutView(k)
    \/ \E k \in SessionKeys, c \in Credentials : StoreLoginView(k, c.username, c.password)
    \/ \E k \in SessionKeys : StoreLogoutView(k)

SpecLogin == Init /\ [][NextLogin]_vars

\* The characters of the names of the users that bulk_create adds.
Letters == <<"a", "b", "c", "d", "e", "f", "g", "h", "i", "k", "l", "m", "n">>

\* The user that bulk_create adds as the i-th row of the table.
ExtraUser(i) ==
    [id |-> UserIds[i],
     username |-> <<"u", Letters[i]>>,
     email |-> <<"u", Letters[i], "@", "x">>,
     first_name |-> IF i % 3 = 0 THEN <<"J", "a">> ELSE <<"U">>,
     last_name |-> IF i % 4 = 0 THEN <<"D">> ELSE <<>>,
     is_active |-> (i % 2 = 0), is_staff |-> FALSE, password |-> "", date_joined |-> i]

\* The q and status parameters as typed into the filter form or the URL.
Queries ==
    { <<>>, <<" ">>, <<"j">>, <<"J", "A">>, <<" ", "d">>, <<" ", "@", "x">>, <<"u", "e">>, <<"z">> }

Statuses == { <<>>, ACTIVE, INACTIVE, <<" ">> \o ACTIVE, <<"x">> }

\* The shop with the users of InitialUsers and any number of added users.
InitUserList ==
    /\ product = InitialProducts
    /\ coupon = InitialCoupons
    /\ carts = {}
    /\ cartItems = {}
    /\ orders = {}
    /\ orderItems = {}
    /\ addresses = {}
    /\ now = 0
    /\ resp = Resp("none", "none")
    /\ txn = [u \in Users |-> Idle]
    /\ \E n \in Cardinality(InitialUsers)..Len(UserIds) :
          /\ users = InitialUsers \cup {ExtraUser(i) : i \in (Cardinality(InitialUsers) + 1)..n}
          /\ userSeq = n
    /\ session = NoSessions
    /\ page = NoPage
    /\ building = NoRequests
    /\ category = InitialCategories

\* The logins of the dashboard and the requests for the list of users.
NextUserList ==
    \/ \E c \in Credentials : DashboardLoginView("s1", c.username, c.password)
    \/ \E q \in Queries, status \in Statuses, number \in 1..2 :
          UserListView("s1", q, status, number)

SpecUserList == InitUserList /\ [][NextUserList]_vars

\* ---------------------------------- the products and orders of the dashboard
PAID == "paid"
SHIPPED == "shipped"
COMPLETED == "completed"
CANCELED == "canceled"

\* Order.Status.choices
OrderStatuses == {PENDING, PAID, SHIPPED, COMPLETED, CANCELED}

\* ProductAdminForm.is_valid: the validators of price and of stock
ProductFormValid(f) == f.price >= 0 /\ f.stock >= 0

\* SavedProduct that writes the new price into the order items of the product
SavedProductMutant(db, p, f) ==
    [db EXCEPT !.product[p] = [price |-> f.price, stock |-> f.stock, is_active |-> f.is_active],
               !.orderItems = {[i EXCEPT !.unit_price = IF i.product = p THEN f.price ELSE @] :
                                  i \in @}]

\* ProductAdminForm.save: the fields of the form are written to the row
SavedProduct(db, p, f) ==
    [db EXCEPT !.product[p] = [price |-> f.price, stock |-> f.stock, is_active |-> f.is_active]]

\* ProductAdminUpdateView.post
ProductAdminUpdateView(k, p, f) ==
    LET d == dispatch(users, session[k])
    IN  IF ~d.allowed THEN TurnedAway(k, d)
        ELSE /\ UNCHANGED <<now, category, txn, users, session, page, building, userSeq>>
             /\ IF p \notin DOMAIN product
                THEN /\ resp' = Resp("product_update", "404")
                     /\ Commit(DB)
                ELSE IF ~ProductFormValid(f)
                THEN /\ resp' = Resp("product_update", "invalid")
                     /\ Commit(DB)
                ELSE /\ resp' = Resp("product_update", "updated")
                     /\ Commit(SavedProduct(DB, p, f))

\* on_delete=PROTECT of OrderItem.product and of CartItem.product: the rows
\* that keep the product from being deleted.
ProtectingProduct(db, p) ==
    {i \in db.orderItems : i.product = p} \cup {i \in db.cartItems : i.product = p}

\* ProductAdminDeleteView.delete (the POST); ProtectedError is caught.
ProductAdminDeleteView(k, p) ==
    LET d == dispatch(users, session[k])
    IN  IF ~d.allowed THEN TurnedAway(k, d)
        ELSE /\ UNCHANGED <<now, category, txn, users, session, page, building, userSeq>>
             /\ IF p \notin DOMAIN product
                THEN /\ resp' = Resp("product_delete", "404")
                     /\ Commit(DB)
                ELSE IF ProtectingProduct(DB, p) # {}
                THEN /\ resp' = Resp("product_delete", "protected")
                     /\ Commit(DB)
                ELSE /\ resp' = Resp("product_delete", "deleted")
                     /\ Commit([DB EXCEPT !.product = [x \in DOMAIN @ \ {p} |-> @[x]]])

\* OrderStatusForm.save: the status of the form is written to the row
SavedOrder(row, status) == [row EXCEPT !.status = status]

\* OrderAdminDetailView.post
OrderAdminDetailView(k, pk, status) ==
    LET d == dispatch(users, session[k])
        found == {o \in orders : o.id = pk}
        row == CHOOSE o \in found : TRUE
    IN  IF ~d.allowed THEN TurnedAway(k, d)
        ELSE /\ UNCHANGED <<now, category, txn, users, session, page, building, userSeq>>
             /\ IF found = {}
                THEN /\ resp' = Resp("order_detail", "404")
                     /\ Commit(DB)
                ELSE IF status \notin OrderStatuses
                THEN /\ resp' = Resp("order_detail", "invalid")
                     /\ Commit(DB)
                ELSE /\ resp' = Resp("order_detail", "updated")
                     /\ Commit([DB EXCEPT !.orders = (@ \ {row}) \cup {SavedOrder(row, status)}])

\* The data of a ProductAdminForm as posted.
ProductForms ==
    { [price |-> Money(5), stock |-> 1, is_active |-> TRUE],
      [price |-> 0 - Money(1), stock |-> 1, is_active |-> TRUE] }

\* The status of an OrderStatusForm as posted.
PostedStatuses == {PAID, "refunded"}

\* The products that the staff user edits and deletes.
EditedProducts == {"p1"}

\* The staff user's browser.
StaffKey == "s2"

\* A shopper fills the cart and checks out while the staff user edits
\* products and orders in the dashboard.
NextOrders ==
    \/ \E c \in Shoppers, p \in DOMAIN product, q \in 1..MaxQty : AddToCartView(c, p, q)
    \/ \E c \in Shoppers, p \in DOMAIN product, q \in 1..MaxQty : CartViewUpdate(c, p, q)
    \/ \E c \in Shoppers, p \in DOMAIN product : CartViewRemove(c, p)
    \/ \E c \in Shoppers, mode \in RoundingModes : CheckoutView(c, TRUE, mode)
    \/ \E c \in Credentials : DashboardLoginView(StaffKey, c.username, c.password)
    \/ \E p \in EditedProducts, f \in ProductForms : ProductAdminUpdateView(StaffKey, p, f)
    \/ \E p \in EditedProducts : ProductAdminDeleteView(StaffKey, p)
    \/ \E pk \in 1..MaxCheckouts, status \in PostedStatuses :
          OrderAdminDetailView(StaffKey, pk, status)

SpecOrders == Init /\ [][NextOrders]_vars

\* A shopper fills the cart and checks out while a staff user changes the
\* price of a product.
NextPricing ==
    \/ \E c \in Shoppers, p \in EditedProducts, q \in 1..MaxQty : AddToCartView(c, p, q)
    \/ \E c \in Shoppers, p \in EditedProducts, q \in 1..MaxQty : CartViewUpdate(c, p, q)
    \/ \E c \in Shoppers, mode \in RoundingModes : CheckoutView(c, TRUE, mode)
    \/ \E c \in Credentials : DashboardLoginView(StaffKey, c.username, c.password)
    \/ \E p \in EditedProducts, f \in ProductForms : ProductAdminUpdateView(StaffKey, p, f)

SpecPricing == Init /\ [][NextPricing]_vars

\* The products that the customers buy.
BoughtProducts == {"p1"}

\* The shopper's browser.
ShopperKey == "s1"

\* Customers log in, fill their carts and check out while the staff user
\* deletes users in the dashboard.
NextDelete ==
    \/ \E c \in Credentials : StoreLoginView(ShopperKey, c.username, c.password)
    \/ \E p \in BoughtProducts, q \in 1..MaxQty : AddToCartView(ClientOf(ShopperKey), p, q)
    \/ \E mode \in RoundingModes : CheckoutView(ClientOf(ShopperKey), TRUE, mode)
    \/ \E c \in Credentials : DashboardLoginView(StaffKey, c.username, c.password)
    \/ \E pk \in UserKeys : UserDeleteView(StaffKey, pk)

SpecDelete == Init /\ [][NextDelete]_vars

\* ------------------------------------- CartManager, one statement at a time
\* The principals of the requests that race for a cart: one user from two
\* browsers and a visitor who is not logged in.
CartClients ==
    { [user |-> "u1", session_key |-> "s1"],
      [user |-> "u1", session_key |-> "s2"],
      [user |-> Anonymous, session_key |-> "s1"] }

\* The kwargs of get_or_create as a query: the carts of the user, or those
\* of the session that have no user.
CartLookup(rows, user, session_key) ==
    IF user # Anonymous
    THEN {c \in rows : c.user = user}
    ELSE {c \in rows : c.session_key = session_key /\ c.user = NoUser}

\* UniqueViolation without the constraint
UniqueViolationMutant(rows, row) == FALSE

\* unique_cart_per_user: the insert of a second cart of a user fails; the
\* condition user IS NOT NULL leaves the carts of sessions out.
UniqueViolation(rows, row) ==
    row.user # NoUser /\ \E c \in rows : c.user = row.user

\* The request r has answered.
Answered(r, status) ==
    /\ building' = [building EXCEPT ![r] = NoRequests[r]]
    /\ resp' = Resp("add", status)

\* CartManager.__init__ of a request of client c, up to get_or_create.
CartManagerInit(r, c) ==
    /\ building[r].pc = "idle"
    /\ building' = [building EXCEPT ![r] = [pc |-> "get", user |-> c.user,
                                           session_key |-> c.session_key, cart |-> NULL]]
    /\ ShopUnchanged
    /\ UNCHANGED <<now, category, resp, txn, users, session, page, userSeq>>

\* self.get(**kwargs) of get_or_create, the first one and the one after an
\* IntegrityError.
GetCart(r) ==
    LET b == building[r]
        found == CartLookup(carts, b.user, b.session_key)
    IN  /\ b.pc \in {"get", "reget"}
        /\ ShopUnchanged
        /\ UNCHANGED <<now, category, txn, users, session, page, userSeq>>
        /\ IF Cardinality(found) > 1
           THEN Answered(r, "MultipleObjectsReturned")
           ELSE IF found # {}
           THEN /\ building' = [building EXCEPT ![r].pc = "got",
                                                ![r].cart = (CHOOSE c \in found : TRUE).id]
                /\ UNCHANGED resp
           ELSE IF b.pc = "get"
           THEN /\ building' = [building EXCEPT ![r].pc = "create"]
                /\ UNCHANGED resp
           ELSE Answered(r, "IntegrityError")

\* self.create(**params) of get_or_create
CreateCart(r) ==
    LET b == building[r]
        row == [id |-> NextId(carts),
                user |-> IF b.user # Anonymous THEN b.user ELSE NoUser,
                session_key |-> IF b.user # Anonymous THEN "" ELSE b.session_key,
                coupon |-> NULL]
    IN  /\ b.pc = "create"
        /\ UNCHANGED <<product, coupon, cartItems, orders, orderItems, addresses>>
        /\ UNCHANGED <<now, category, resp, txn, users, session, page, userSeq>>
        /\ IF UniqueViolation(carts, row)
           THEN /\ building' = [building EXCEPT ![r].pc = "reget"]
                /\ UNCHANGED carts
           ELSE /\ building' = [building EXCEPT ![r].pc = "got", ![r].cart = row.id]
                /\ carts' = carts \cup {row}

\* The end of _get_or_create_cart: the cart of a user takes the session key
\* of the request when it has none.
CartManagerBuilt(r) ==
    LET b == building[r]
        row == CartRow(DB, b.cart)
    IN  /\ b.pc = "got"
        /\ building' = [building EXCEPT ![r].pc = "built"]
        /\ UNCHANGED <<product, coupon, cartItems, orders, orderItems, addresses>>
        /\ UNCHANGED <<now, category, resp, txn, users, session, page, userSeq>>
        /\ IF b.user # Anonymous /\ b.session_key # "" /\ row.session_key = ""
           THEN carts' = (carts \ {row}) \cup {[row EXCEPT !.session_key = b.session_key]}
           ELSE UNCHANGED carts

\* The rest of AddToCartView.post: the product goes into the cart of the
\* manager.
AddToBuiltCart(r, p) ==
    LET b == building[r]
    IN  /\ b.pc = "built"
        /\ product[p].is_active
        /\ QuantityOf(DB, b.cart, p) + 1 <= MaxQty
        /\ Commit(add_product(DB, b.cart, p, 1))
        /\ Answered(r, "ok")
        /\ UNCHANGED <<now, category, txn, users, session, page, userSeq>>

\* Requests of the storefront that overlap.
NextCarts ==
    \/ \E r \in Requests, c \in CartClients : CartManagerInit(r, c)
    \/ \E r \in Requests : GetCart(r)
    \/ \E r \in Requests : CreateCart(r)
    \/ \E r \in Requests : CartManagerBuilt(r)
    \/ \E r \in Requests, p \in BoughtProducts : AddToBuiltCart(r, p)

SpecCarts == Init /\ [][NextCarts]_vars

\* ----------------------------------- the operations of CartManager, called
\* with any quantity
\* manager.add_product(product, q) of a CartManager of client c
AddProduct(c, p, q) ==
    LET mgr == get_or_create_cart(DB, c.user, c.session_key)
    IN  /\ QuantityOf(mgr.db, mgr.cart, p) + (IF q < 1 THEN 1 ELSE q) <= MaxQty
        /\ resp' = Resp("add_product", "item")
        /\ Commit(add_product(mgr.db, mgr.cart, p, q))
        /\ UNCHANGED <<now, category, txn, users, session, page, building, userSeq>>

\* manager.update_quantity(product, q) of a CartManager of client c
UpdateQuantity(c, p, q) ==
    LET mgr == get_or_create_cart(DB, c.user, c.session_key)
    IN  /\ resp' = Resp("update_quantity",
                        IF QuantityOf(mgr.db, mgr.cart, p) = 0 THEN "None"
                        ELSE IF q < 1 THEN "deleted" ELSE "saved")
        /\ Commit(update_quantity(mgr.db, mgr.cart, p, q))
        /\ UNCHANGED <<now, category, txn, users, session, page, building, userSeq>>

\* manager.remove_product(product) of a CartManager of client c
RemoveProduct(c, p) ==
    LET mgr == get_or_create_cart(DB, c.user, c.session_key)
    IN  /\ resp' = Resp("remove_product", "removed")
        /\ Commit(remove_product(mgr.db, mgr.cart, p))
        /\ UNCHANGED <<now, category, txn, users, session, page, building, userSeq>>

\* The products that go into the carts.
CartProducts == {"p1", "p2"}

\* A shopper calls the operations of the CartManager, while another user
\* fills a cart and the staff user changes the price of a product.
NextCartOps ==
    \/ \E c \in Shoppers, p \in CartProducts, q \in 0..MaxQty : AddProduct(c, p, q)
    \/ \E c \in Shoppers, p \in CartProducts, q \in 0..MaxQty : UpdateQuantity(c, p, q)
    \/ \E c \in Shoppers, p \in CartProducts : RemoveProduct(c, p)
    \/ \E c \in Clients \ Shoppers, p \in BoughtProducts : AddProduct(c, p, 1)
    \/ \E c \in Clients \ Shoppers, p \in BoughtProducts : RemoveProduct(c, p)
    \/ \E c \in Credentials : DashboardLoginView(StaffKey, c.username, c.password)
    \/ \E p \in EditedProducts, f \in ProductForms : ProductAdminUpdateView(StaffKey, p, f)

SpecCartOps == Init /\ [][NextCartOps]_vars

\* A shopper calls the operations of the CartManager and checks out.
NextCartLife ==
    \/ \E c \in Shoppers, p \in CartProducts, q \in 0..MaxQty : AddProduct(c, p, q)
    \/ \E c \in Shoppers, p \in CartProducts, q \in 0..MaxQty : UpdateQuantity(c, p, q)
    \/ \E c \in Shoppers, p \in CartProducts : RemoveProduct(c, p)
    \/ \E c \in Shoppers, mode \in RoundingModes : CheckoutView(c, TRUE, mode)

SpecCartLife == Init /\ [][NextCartLife]_vars

\* ------------------------------ requests of one user that run side by side
\* The requests whose checkout_cart transaction is in flight.
Checking == {r \in Requests : building[r].pc \in {"created", "loop"}}

\* The primary key of an Order inserted by a request: past every key handed
\* out to a row or to a transaction in flight.
FreshOrderIdOf == 1 + MaxOf({o.id : o \in orders} \cup {building[r].order.id : r \in Checking})

\* CheckoutView.post of request r up to address.save(): the user is logged
\* in, the cart is not empty, the forms are valid and the address is saved.
CheckoutPost(r, c) ==
    LET mgr == get_or_create_cart(DB, c.user, c.session_key)
        adr == SaveAddress(mgr.db, c.user)
    IN  /\ c.user # Anonymous
        /\ building[r].pc = "idle"
        /\ ItemsOf(mgr.db, mgr.cart) # {}
        /\ Cardinality(addresses) < MaxCheckouts
        /\ Commit(adr.db)
        /\ building' = [building EXCEPT ![r] =
                          [pc |-> "checked", user |-> c.user, session_key |-> c.session_key,
                           cart |-> mgr.cart, address |-> adr.address]]
        /\ UNCHANGED <<now, category, resp, txn, users, session, page, userSeq>>

\* checkout_cart of request r up to Order.objects.create: the transaction
\* begins, the totals of the cart are computed and the order row is inserted.
CheckoutCreateOrder(r, mode) ==
    LET req == building[r]
        mgr == get_or_create_cart(DB, req.user, CartRow(DB, req.cart).session_key)
        order == NewOrder(FreshOrderIdOf, req.user, totals(mgr.db, mgr.cart), req.address,
                          CartRow(DB, req.cart).coupon, mode)
    IN  /\ req.pc = "checked"
        /\ building' = [building EXCEPT ![r] =
                          [pc |-> "created", user |-> req.user, session_key |-> req.session_key,
                           cart |-> req.cart, order |-> order, read |-> product,
                           remaining |-> <<>>, writes |-> [p \in Products |-> NULL],
                           items |-> {}]]
        /\ UNCHANGED <<product, coupon, carts, cartItems, orders, orderItems, addresses, now, category,
                     resp, txn, users, session, page, userSeq>>

\* for item in cart.items.select_related("product") of request r: the query
\* runs and reads the items with their products.
CheckoutReadItems(r) ==
    /\ building[r].pc = "created"
    /\ \E seq \in Orderings(ItemsOf(DB, building[r].cart)) :
          building' = [building EXCEPT ![r].pc = "loop", ![r].read = product,
                                       ![r].remaining = seq]
    /\ UNCHANGED <<product, coupon, carts, cartItems, orders, orderItems, addresses, now, category, resp,
                 txn, users, session, page, userSeq>>

\* The row of product p is written by the transaction of a request other
\* than r.
LockedByRequest(r, p) == \E s \in Checking \ {r} : building[s].writes[p] # NULL

\* One turn of the loop of request r: the check on the stock as read, then
\* the save of the stock, which waits for the row; ValueError rolls the
\* transaction back.
CheckoutProcessItem(r) ==
    /\ building[r].pc = "loop"
    /\ building[r].remaining # <<>>
    /\ LET item == Head(building[r].remaining)
           stock == building[r].read[item.product].stock
       IN  IF ~HasStock(stock, item.quantity)
           THEN /\ building' = [building EXCEPT ![r] = NoRequests[r]]
                /\ resp' = Resp("checkout", "ValueError")
           ELSE /\ ~LockedByRequest(r, item.product)
                /\ building' = [building EXCEPT
                      ![r].remaining = Tail(@),
                      ![r].writes[item.product] = StockAfter(stock, item.quantity),
                      ![r].items = @ \cup {NewOrderItem(NULL, building[r].order.id, item)}]
                /\ UNCHANGED resp
    /\ UNCHANGED <<product, coupon, carts, cartItems, orders, orderItems, addresses, now, category,
                 txn, users, session, page, userSeq>>

\* The end of checkout_cart of request r and the commit: the order, its
\* items and the stocks written become visible, the cart is cleared.
CheckoutCommit(r) ==
    /\ building[r].pc = "loop"
    /\ building[r].remaining = <<>>
    /\ LET db1 == [DB EXCEPT
                     !.orders = @ \cup {building[r].order},
                     !.orderItems = @ \cup Numbered(building[r].items, Cardinality(@)),
                     !.product = [p \in Products |->
                                    IF building[r].writes[p] # NULL
                                    THEN [@[p] EXCEPT !.stock = building[r].writes[p]]
                                    ELSE @[p]]]
       IN  Commit(ClearCart(db1, building[r].cart))
    /\ building' = [building EXCEPT ![r] = NoRequests[r]]
    /\ resp' = [Resp("checkout", "created") EXCEPT !.order = building[r].order.id]
    /\ UNCHANGED <<now, category, txn, users, session, page, userSeq>>

\* Request r waits for a row that request s has written.
RequestWaitsFor(r, s) ==
    /\ building[r].pc = "loop"
    /\ building[s].pc = "loop"
    /\ building[r].remaining # <<>>
    /\ LET item == Head(building[r].remaining)
       IN  /\ HasStock(building[r].read[item.product].stock, item.quantity)
           /\ building[s].writes[item.product] # NULL

\* Two transactions wait for each other's rows: the database ends one with
\* an error, which the view does not catch.
CheckoutDeadlock(r) ==
    /\ \E s \in Requests \ {r} : RequestWaitsFor(r, s) /\ RequestWaitsFor(s, r)
    /\ building' = [building EXCEPT ![r] = NoRequests[r]]
    /\ resp' = Resp("checkout", "500")
    /\ UNCHANGED <<product, coupon, carts, cartItems, orders, orderItems, addresses, now, category,
                 txn, users, session, page, userSeq>>

\* The shopper has filled the cart; no request is in flight.
InitRace ==
    /\ product = InitialProducts
    /\ coupon = InitialCoupons
    /\ carts = {[id |-> 1, user |-> c.user, session_key |-> c.session_key, coupon |-> NULL] :
                  c \in Shoppers}
    /\ \E q \in [Buyable -> 0..MaxQty] :
          cartItems = {[cart |-> 1, product |-> p, quantity |-> q[p],
                        unit_price |-> InitialProducts[p].price] :
                          p \in {x \in Buyable : q[x] > 0}}
    /\ orders = {}
    /\ orderItems = {}
    /\ addresses = {}
    /\ now = 0
    /\ resp = Resp("none", "none")
    /\ txn = [u \in Users |-> Idle]
    /\ users = InitialUsers
    /\ session = NoSessions
    /\ page = NoPage
    /\ building = NoRequests
    /\ userSeq = Cardinality(InitialUsers)
    /\ category = InitialCategories

\* Requests of the shopper overlap: checkouts, statement by statement, and
\* requests that add a product to the cart.
NextRace ==
    \/ \E r \in Requests, c \in Shoppers : CheckoutPost(r, c)
    \/ \E r \in Requests, mode \in RoundingModes : CheckoutCreateOrder(r, mode)
    \/ \E r \in Requests : CheckoutReadItems(r)
    \/ \E r \in Requests : CheckoutProcessItem(r)
    \/ \E r \in Requests : CheckoutCommit(r)
    \/ \E r \in Requests : CheckoutDeadlock(r)
    \/ \E c \in Shoppers, p \in BoughtProducts : AddProduct(c, p, 1)

SpecRace == InitRace /\ [][NextRace]_vars

\* ------------------------------------------------------------ categories
\* The names a category is given: one letter each.
CategoryNames == {<<"a">>, <<"A">>, <<"d">>}

\* slugify(name) of a name made of letters: the name in lower case.
slugify(name) == Lower(name)

\* Meta.ordering = ["name"] on names of one letter.
NameRank(name) ==
    CASE name[1] = "A" -> 1
      [] name[1] = "a" -> 2
      [] OTHER -> 3

\* node.children.filter(is_active=True), as a list in the order of the names
RECURSIVE Sorted(_)
Sorted(rows) ==
    IF rows = {} THEN <<>>
    ELSE LET first == CHOOSE r \in rows : \A o \in rows : NameRank(r.name) <= NameRank(o.name)
         IN  <<first.id>> \o Sorted(rows \ {first})

Children(rows, id) == Sorted({r \in rows : r.parent = id /\ r.is_active})

\* The while loop of get_descendants.  Each row has one parent, so a node
\* leaves the queue twice only on a cycle, and then the queue never empties:
\* a loop that has popped as many nodes as there are rows and still has a
\* queue does not return.
RECURSIVE Descend(_, _, _, _)
Descend(rows, queue, descendants, turns) ==
    IF queue = <<>> THEN [returns |-> TRUE, descendants |-> descendants]
    ELSE IF turns = 0 THEN [returns |-> FALSE, descendants |-> descendants]
    ELSE Descend(rows, Tail(queue) \o Children(rows, Head(queue)),
                 Append(descendants, Head(queue)), turns - 1)

\* Category.get_descendants
get_descendants(rows, id, include_self) ==
    LET d == Descend(rows, Children(rows, id), <<>>, Cardinality(rows))
    IN  IF d.returns /\ include_self
        THEN [d EXCEPT !.descendants = Append(@, id)]
        ELSE d

\* The queryset of the parent field: CategoryForm.__init__, narrowed by
\* CategoryAdminUpdateView.get_form for the category that is edited.
ParentChoices(rows, instance) == {r.id : r \in {x \in rows : x.is_active}} \ {instance}

\* CategoryForm.is_valid: the name is unique, the parent is empty or one of
\* the choices.
CategoryFormValid(rows, instance, f) ==
    /\ \A r \in rows : r.id # instance => r.name # f.name
    /\ f.parent = NULL \/ f.parent \in ParentChoices(rows, instance)

\* CategoryAdminCreateView.post; Category.save fills the slug, which is
\* unique in the table and which the form does not validate.
CategoryAdminCreateView(k, f) ==
    LET d == dispatch(users, session[k])
    IN  IF ~d.allowed THEN TurnedAway(k, d)
        ELSE /\ UNCHANGED <<product, coupon, carts, cartItems, orders, orderItems, addresses,
                          now, txn, users, session, page, building, userSeq>>
             /\ Cardinality(category) < MaxCategories
             /\ IF ~CategoryFormValid(category, NULL, f)
                THEN /\ resp' = Resp("category_create", "invalid")
                     /\ UNCHANGED category
                ELSE IF \E r \in category : r.slug = slugify(f.name)
                THEN /\ resp' = Resp("category_create", "500")
                     /\ UNCHANGED category
                ELSE /\ resp' = Resp("category_create", "created")
                     /\ category' = category \cup
                           {[id |-> NextId(category), name |-> f.name, slug |-> slugify(f.name),
                             parent |-> f.parent, is_active |-> f.is_active]}

\* CategoryAdminUpdateView.post
CategoryAdminUpdateView(k, pk, f) ==
    LET d == dispatch(users, session[k])
    IN  IF ~d.allowed THEN TurnedAway(k, d)
        ELSE /\ UNCHANGED <<product, coupon, carts, cartItems, orders, orderItems, addresses,
                          now, txn, users, session, page, building, userSeq>>
             /\ IF ~\E r \in category : r.id = pk
                THEN /\ resp' = Resp("category_update", "404")
                     /\ UNCHANGED category
                ELSE IF ~CategoryFormValid(category, pk, f)
                THEN /\ resp' = Resp("category_update", "invalid")
                     /\ UNCHANGED category
                ELSE /\ resp' = Resp("category_update", "updated")
                     /\ category' = {IF r.id = pk
                                     THEN [r EXCEPT !.name = f.name, !.parent = f.parent,
                                                    !.is_active = f.is_active]
                                     ELSE r : r \in category}

\* ProductListView.get of the catalogue of one category: 404 without an
\* active category of that slug; the products of the category and of its
\* descendants; the page's context builds the cart of the request.
ProductListView(c, category_slug) ==
    LET found == {r \in category : r.slug = category_slug /\ r.is_active}
        mgr == get_or_create_cart(DB, c.user, c.session_key)
    IN  /\ UNCHANGED <<now, category, txn, users, session, page, building, userSeq>>
        /\ IF found = {}
           THEN /\ resp' = Resp("product_list", "404")
                /\ Commit(DB)
           ELSE LET self == CHOOSE r \in found : TRUE
                IN  IF ~get_descendants(category, self.id, TRUE).returns
                    THEN /\ resp' = Resp("product_list", "no response")
                         /\ Commit(DB)
                    ELSE /\ resp' = Resp("product_list", "200")
                         /\ Commit(mgr.db)

\* The forms that are posted for a category.
CategoryForms ==
    [name : CategoryNames, parent : {NULL} \cup 1..MaxCategories, is_active : BOOLEAN]

\* A staff user edits the categories while a shopper opens their pages.
NextCategories ==
    \/ \E c \in Credentials : DashboardLoginView(StaffKey, c.username, c.password)
    \/ \E f \in CategoryForms : CategoryAdminCreateView(StaffKey, f)
    \/ \E pk \in 1..MaxCategories, f \in CategoryForms : CategoryAdminUpdateView(StaffKey, pk, f)
    \/ \E c \in Shoppers, name \in CategoryNames : ProductListView(c, slugify(name))

SpecCategories == Init /\ [][NextCategories]_vars


\* --------------------------------------------- the accounts of the storefront
\* StoreRegistrationForm.is_valid(): a first name, a username that no user
\* has, an e-mail address (EmailField strips it) that is well formed and that
\* clean_email finds with no user, and the password typed twice.
RegistrationFormValid(rows, f) ==
    /\ f.first_name # <<>>
    /\ f.username # <<>>
    /\ ~\E u \in rows : u.username = f.username
    /\ ValidEmail(Strip(f.email))
    /\ ~EmailInUse(rows, NoUser, Strip(f.email))
    /\ f.password1 # ""
    /\ f.password1 = f.password2

\* form.save() of a StoreRegistrationForm
RegisteredUser(row, f) ==
    [row EXCEPT !.username = f.username, !.email = Strip(f.email),
                !.first_name = f.first_name, !.last_name = f.last_name,
                !.password = f.password1]

\* StoreRegisterView.post: a user that is logged in is sent to the account;
\* a valid form is saved and its user logged in.
StoreRegisterView(k, f) ==
    /\ ShopUnchanged
    /\ UNCHANGED <<now, category, txn, page, building>>
    /\ IF RequestUser(k) # Anonymous
       THEN /\ resp' = Resp("register", "redirect")
            /\ UNCHANGED <<users, userSeq, session>>
       ELSE IF ~RegistrationFormValid(users, f)
       THEN /\ resp' = Resp("register", "invalid")
            /\ UNCHANGED <<users, userSeq, session>>
       ELSE /\ userSeq < MaxUsers
            /\ resp' = Resp("register", "registered")
            /\ users' = users \cup {RegisteredUser(NewUser(userSeq), f)}
            /\ userSeq' = userSeq + 1
            /\ session' = [session EXCEPT ![k] = AuthLogin(@, NewUser(userSeq).id)]

\* ProfileUpdateForm.is_valid() for the user of the request: the e-mail
\* address is not empty, well formed and with no other user.
ProfileFormValid(rows, instance, f) ==
    /\ Strip(f.email) # <<>>
    /\ ValidEmail(Strip(f.email))
    /\ ~EmailInUse(rows, instance, Strip(f.email))

\* form.save() of a ProfileUpdateForm
SavedProfile(row, f) ==
    [row EXCEPT !.first_name = f.first_name, !.last_name = f.last_name,
                !.email = Strip(f.email)]

\* AccountProfileUpdateView.post; LoginRequiredMixin sends a request without
\* login to the login page.
AccountProfileUpdateView(k, f) ==
    LET found == {u \in users : u.id = RequestUser(k)}
        row == CHOOSE u \in found : TRUE
    IN  /\ ShopUnchanged
        /\ UNCHANGED <<now, category, txn, session, page, building, userSeq>>
        /\ IF RequestUser(k) = Anonymous
           THEN /\ resp' = Resp("profile", "login")
                /\ UNCHANGED users
           ELSE IF ~ProfileFormValid(users, row.id, f)
           THEN /\ resp' = Resp("profile", "invalid")
                /\ UNCHANGED users
           ELSE /\ resp' = Resp("profile", "updated")
                /\ users' = (users \ {row}) \cup {SavedProfile(row, f)}

\* The data of a StoreRegistrationForm as posted.
RegistrationForms ==
    { [username |-> <<"n">>, email |-> <<"n", "@", "x">>, first_name |-> <<"N">>,
       last_name |-> <<>>, password1 |-> "pw5", password2 |-> "pw5"],
      [username |-> <<"k">>, email |-> <<"J", "@", "X">>, first_name |-> <<"K">>,
       last_name |-> <<>>, password1 |-> "pw6", password2 |-> "pw6"],
      [username |-> <<"m">>, email |-> <<" ", "N", "@", "x">>, first_name |-> <<"M">>,
       last_name |-> <<>>, password1 |-> "pw7", password2 |-> "pw7"] }

\* The data of a ProfileUpdateForm as posted.
ProfileForms ==
    { [first_name |-> <<"J", "a">>, last_name |-> <<"D">>, email |-> <<"j", "@", "x">>],
      [first_name |-> <<"J">>, last_name |-> <<"D">>, email |-> <<"A", "@", "x">>],
      [first_name |-> <<"J">>, last_name |-> <<"D">>, email |-> <<"N", "@", "X">>] }

\* The users whose rows the staff user edits: a customer and the first user
\* that is added.
EditedUsers == {"u1", UserIds[Cardinality(InitialUsers) + 1]}

\* Visitors register, log in and edit their profiles while a staff user
\* creates and updates users in the dashboard.
NextAccounts ==
    \/ \E c \in Credentials : StoreLoginView(ShopperKey, c.username, c.password)
    \/ StoreLogoutView(ShopperKey)
    \/ \E f \in RegistrationForms : StoreRegisterView(ShopperKey, f)
    \/ \E f \in ProfileForms : AccountProfileUpdateView(ShopperKey, f)
    \/ \E c \in Credentials : DashboardLoginView(StaffKey, c.username, c.password)
    \/ \E f \in UserForms : UserCreateView(StaffKey, f)
    \/ \E pk \in EditedUsers, f \in UserForms : UserUpdateView(StaffKey, pk, f)

SpecAccounts == Init /\ [][NextAccounts]_vars


\* ================================================================ claims
\* The cart a request of client c works on (the row exists once the client
\* has made a request).
CartOf(c) == (CHOOSE row \in carts : row.user = c.user).id

NoItems == {}

\* A step of CheckoutView.post by client c, and its two outcomes that
\* reached checkout_cart.
CheckoutStep(c) ==
    \E valid \in BOOLEAN, mode \in RoundingModes : CheckoutView(c, valid, mode)

Created(c) == resp'.status = "created" /\ CheckoutStep(c)

Raised(c) == resp'.status = "ValueError" /\ CheckoutStep(c)

\* The items of a cart without the cart, the items of an order without the
\* order and the row id: what the two can be compared on.
Lines(items) ==
    {[product |-> i.product, quantity |-> i.quantity, unit_price |-> i.unit_price] :
        i \in items}

OrderItemsOf(rows, order) == {i \in rows : i.order = order}

\* C1: checkout_cart never oversells: a checkout creates its order only if
\* every item of the cart finds a stock of at least its quantity, a checkout
\* that finds an item with less raises ValueError, and no product's stock is
\* ever below 0.
C1_NoOversell ==
    [][ /\ \A p \in Products : product'[p].stock >= 0
        /\ \A c \in Shoppers :
              Created(c) =>
                 \A i \in ItemsOf(DB, CartOf(c)) : product[i.product].stock >= i.quantity
        /\ \A c \in Shoppers, mode \in RoundingModes :
              (/\ \E row \in carts : /\ row.user = c.user
                                    /\ \E i \in ItemsOf(DB, row.id) :
                                          product[i.product].stock < i.quantity
               /\ CheckoutView(c, TRUE, mode))
              => resp'.status = "ValueError" ]_vars

\* C1 witness: a checkout went through and took the last unit of a product.
C1_Witness ==
    /\ resp.status = "created"
    /\ \E i \in OrderItemsOf(orderItems, resp.order) :
          product[i.product].stock = 0 /\ i.quantity = 2

\* C3: a checkout_cart that raises ValueError leaves no order and no order
\* item, changes no product, and leaves the cart's items and coupon as they
\* were.
C3_AllOrNothing ==
    [][ \A c \in Shoppers :
           Raised(c) =>
              /\ orders' = orders
              /\ orderItems' = orderItems
              /\ product' = product
              /\ cartItems' = cartItems
              /\ carts' = carts ]_vars

\* C3 witness: a checkout of a cart of two items has raised ValueError.
C3_Witness ==
    /\ resp.status = "ValueError"
    /\ \E row \in carts : Cardinality(ItemsOf(DB, row.id)) = 2

\* C4: the order of a successful checkout has exactly one order item per
\* item of the cart, with its product, quantity and unit price, and no other.
C4_OrderItemsMatchCart ==
    [][ \A c \in Shoppers :
           Created(c) =>
              LET mine == OrderItemsOf(orderItems', resp'.order)
                  cart == ItemsOf(DB, CartOf(c))
              IN  /\ Lines(mine) = Lines(cart)
                  /\ Cardinality(mine) = Cardinality(cart)
                  /\ orderItems' \ mine = orderItems
                  /\ \E o \in orders' \ orders : o.id = resp'.order ]_vars

\* C4 witness: an order of two items, one of them of quantity 2.
C4_Witness ==
    /\ resp.status = "created"
    /\ Cardinality(OrderItemsOf(orderItems, resp.order)) = 2
    /\ \E i \in OrderItemsOf(orderItems, resp.order) : i.quantity = 2

\* C5: after a successful checkout the cart is still there, has no items
\* and no coupon, and its totals are 0, 0 and 0.
C5_CartCleared ==
    resp.status = "created" =>
        \E o \in orders :
           /\ o.id = resp.order
           /\ \E row \in carts :
                 /\ row.user = o.user
                 /\ ItemsOf(DB, row.id) = NoItems
                 /\ row.coupon = NULL
                 /\ totals(DB, row.id) = [subtotal |-> 0, discount |-> 0, total |-> 0]

\* C5 witness: the cart that was checked out carried a coupon.
C5_Witness ==
    /\ resp.status = "created"
    /\ \E o \in orders : o.id = resp.order /\ o.coupon # NULL

\* The quantity of product p among the items.
QuantityIn(items, p) ==
    IF \E i \in items : i.product = p
    THEN (CHOOSE i \in items : i.product = p).quantity
    ELSE 0

\* C6: a successful checkout takes from the stock of each product of the
\* cart exactly the item's quantity, and changes nothing else of any product.
C6_StockFrame ==
    [][ \A c \in Shoppers :
           Created(c) =>
              \A p \in Products :
                 /\ product'[p].stock =
                       product[p].stock - QuantityIn(ItemsOf(DB, CartOf(c)), p)
                 /\ product'[p].price = product[p].price
                 /\ product'[p].is_active = product[p].is_active ]_vars

\* C6 witness: an order that took two units of one product and none of another.
C6_Witness ==
    /\ resp.status = "created"
    /\ \E i \in OrderItemsOf(orderItems, resp.order) : i.quantity = 2
    /\ \E p \in Products :
          product[p].is_active /\ \A i \in OrderItemsOf(orderItems, resp.order) : i.product # p

\* The totals as the claim states them, for the cart row: the sum of
\* unit_price * quantity, no discount without a coupon, the percentage or the
\* amount capped by the subtotal with one, and the difference.
ClaimedTotals(row) ==
    LET subtotal == SumSubtotals(ItemsOf(DB, row.id))
        discount ==
            IF row.coupon = NULL THEN 0
            ELSE IF coupon[row.coupon].type = PERCENT
                 THEN Min((subtotal \div Cent) * (coupon[row.coupon].value \div Cent), subtotal)
                 ELSE Min(coupon[row.coupon].value, subtotal)
    IN  [subtotal |-> subtotal, discount |-> discount, total |-> subtotal - discount]

\* C7: totals() is the claimed subtotal, discount and total, and the order
\* that checkout_cart creates stores exactly these three values and the
\* cart's coupon.
C7_OrderStoresTotals ==
    [][ /\ \A row \in carts : totals(DB, row.id) = ClaimedTotals(row)
        /\ \A c \in Shoppers :
              Created(c) =>
                 \E o \in orders' \ orders :
                    /\ o.subtotal = totals(DB, CartOf(c)).subtotal
                    /\ o.discount = totals(DB, CartOf(c)).discount
                    /\ o.total = totals(DB, CartOf(c)).total
                    /\ o.coupon = CartRow(DB, CartOf(c)).coupon ]_vars

\* C9: a coupon with a usage limit is recorded on no more orders than the
\* limit.
C9_UsageCap ==
    \A id \in DOMAIN coupon :
       coupon[id].usage_limit # NULL =>
          Cardinality({o \in orders : o.coupon = id}) <= coupon[id].usage_limit

\* The coupon can be applied with the code at time t, as the claim lists it.
Usable(id, code, t) ==
    /\ Lower(coupon[id].code) = Lower(code)
    /\ coupon[id].is_active
    /\ coupon[id].active_from <= t /\ t <= coupon[id].active_to
    /\ (coupon[id].usage_limit = NULL \/ coupon[id].used_count < coupon[id].usage_limit)

\* The coupon of the user's cart among the rows, NULL when there is no cart.
CouponOn(rows, user) ==
    IF \E row \in rows : row.user = user
    THEN (CHOOSE row \in rows : row.user = user).coupon
    ELSE NULL

\* A step of CartView.post with the action "coupon", told by its answer first.
CouponStep(c, code) ==
    /\ resp'.status \in {"applied", "error", "invalid"}
    /\ CartViewCoupon(c, code)

\* C10: apply_coupon attaches a coupon only if it matches the code without
\* regard to case, is active, is within its window and is not exhausted, and
\* the cart then holds that coupon in place of the previous one; when it
\* returns None the cart's coupon is as before.
C10_ApplyCoupon ==
    [][ \A c \in Shoppers, code \in Codes :
           CouponStep(c, code) =>
              /\ resp'.coupon # NULL =>
                    /\ Usable(resp'.coupon, code, now)
                    /\ CouponOn(carts', c.user) = resp'.coupon
              /\ resp'.coupon = NULL =>
                    CouponOn(carts', c.user) = CouponOn(carts, c.user)
              /\ (\A id \in DOMAIN coupon : ~Usable(id, code, now)) =>
                    resp'.coupon = NULL ]_vars

\* C10 witness: an application failed on a cart that holds a coupon.
C10_Witness ==
    /\ resp.status = "error"
    /\ \E row \in carts : row.coupon # NULL

\* C8: for every cart and every coupon row that can be stored, totals() has
\* 0 <= discount <= subtotal and 0 <= total <= subtotal.
C8_DiscountBounds ==
    \A row \in carts :
       LET t == totals(DB, row.id)
       IN  /\ 0 <= t.discount /\ t.discount <= t.subtotal
           /\ 0 <= t.total /\ t.total <= t.subtotal

\* The units of product p that the committed orders sold.
RECURSIVE SumQuantities(_)
SumQuantities(items) ==
    IF items = {} THEN 0
    ELSE LET i == CHOOSE x \in items : TRUE
         IN  i.quantity + SumQuantities(items \ {i})

Sold(p) == SumQuantities({i \in orderItems : i.product = p})

\* C2: when checkouts of different users interleave, the stock is conserved:
\* the stock a product started with is its stock now plus the units that the
\* committed orders sold, so no more is sold than there was.
C2_StockConserved ==
    \A p \in Products :
       /\ InitialProducts[p].stock = product[p].stock + Sold(p)
       /\ Sold(p) <= InitialProducts[p].stock

\* The coupon is active and within its validity window at time t.
InWindow(id, t) ==
    /\ coupon[id].is_active
    /\ coupon[id].active_from <= t
    /\ t <= coupon[id].active_to

\* C11: an order that records a coupon was created when the coupon was
\* active and the time within its window: a coupon that has expired since it
\* was applied to the cart is not recorded on the order and discounts nothing.
C11_CouponValidAtPurchase ==
    [][ \A c \in Shoppers :
           Created(c) =>
              \A o \in orders' \ orders :
                 /\ o.coupon # NULL => InWindow(o.coupon, now)
                 /\ o.discount # 0 => o.coupon # NULL ]_vars

\* The session holds the primary key of a user that is there, staff and active.
IsStaffSession(k) ==
    \E u \in users : u.id = session[k].dashboard_user_id /\ u.is_staff /\ u.is_active

\* A request of session k to one of the views behind StaffRequiredMixin
\* that create, update and delete users.
StaffStep(k) ==
    \/ \E f \in UserForms : UserCreateView(k, f)
    \/ \E pk \in UserKeys, f \in UserForms : UserUpdateView(k, pk, f)
    \/ \E pk \in UserKeys : UserDeleteView(k, pk)

\* C16: the handler of a view behind StaffRequiredMixin runs only for a
\* session whose dashboard_user_id is, at the request, the key of a user that
\* exists, is staff and is active; any other request is sent to the login,
\* changes no data and leaves the session without dashboard_user_id.
C16_StaffOnly ==
    [][ \A k \in SessionKeys :
           StaffStep(k) =>
              IF IsStaffSession(k)
              THEN /\ resp'.status \notin {"login", "expired"}
                   /\ session' = session
              ELSE /\ resp'.status \in {"login", "expired"}
                   /\ users' = users
                   /\ userSeq' = userSeq
                   /\ DB' = DB
                   /\ session'[k].dashboard_user_id = NoUser
                   /\ session'[k].auth_user_id = session[k].auth_user_id ]_vars

\* C16 witness: a session whose staff user was deactivated or deleted after
\* the login has been turned away and has lost its dashboard_user_id.
C16_Witness ==
    /\ resp.status = "expired"
    /\ \E k \in SessionKeys : session[k].dashboard_user_id = NoUser

\* The credentials are those of the user.
BelongTo(c, u) == u.username = c.username /\ u.password = c.password /\ u.password # ""

\* C17: DashboardLoginView sets dashboard_user_id only to the key of a staff
\* user whose credentials were given; a user that is not staff is answered
\* with an error and the session stays without dashboard_user_id; the login
\* and the logout of the dashboard write nothing of a session but
\* dashboard_user_id, so the user of the storefront stays.
C17_StaffLogin ==
    [][ \A k \in SessionKeys :
           /\ \A c \in Credentials :
                 DashboardLoginView(k, c.username, c.password) =>
                    /\ session'[k].dashboard_user_id # session[k].dashboard_user_id =>
                          \E u \in users : /\ u.id = session'[k].dashboard_user_id
                                           /\ BelongTo(c, u)
                                           /\ u.is_staff
                    /\ (/\ session[k].dashboard_user_id = NoUser
                        /\ \E u \in users : BelongTo(c, u) /\ u.is_active /\ ~u.is_staff) =>
                          /\ resp'.status = "not_staff"
                          /\ session'[k].dashboard_user_id = NoUser
                    /\ session'[k].auth_user_id = session[k].auth_user_id
                    /\ \A j \in SessionKeys \ {k} : session'[j] = session[j]
           /\ DashboardLogoutView(k) =>
                 session' = [session EXCEPT ![k].dashboard_user_id = NoUser] ]_vars

\* C17 witness: a user that is not staff, logged in to the storefront, was
\* refused by the login of the dashboard.
C17_Witness ==
    /\ resp.status = "not_staff"
    /\ \E k \in SessionKeys :
          /\ session[k].auth_user_id # NoUser
          /\ session[k].dashboard_user_id = NoUser

\* The term occurs in the username, the first name, the last name or the
\* e-mail address of the user, whatever the case of the letters.
Occurs(term, u) ==
    \/ IContains(u.username, term)
    \/ IContains(u.first_name, term)
    \/ IContains(u.last_name, term)
    \/ IContains(u.email, term)

\* The users that the status parameter lets through.
OfStatus(status) ==
    {u \in users : /\ status = ACTIVE => u.is_active
                   /\ status = INACTIVE => ~u.is_active}

\* The page that was asked for holds at most paginate_by users of the
\* filtered result and only the last page holds fewer.
Paged(p, number) ==
    /\ Len(p.users) <= paginate_by
    /\ \A i \in 1..Len(p.users) : p.users[i] \in p.filtered
    /\ p.count = Cardinality(p.filtered)
    /\ Len(p.users) = Min(paginate_by, p.count - (number - 1) * paginate_by)

\* C18 as stated: the user list under status=inactive holds inactive users
\* only, under status=active active users only; under a non-empty q a user is
\* in the filtered result exactly when q occurs in the username, the first
\* name, the last name or the e-mail address; the pages hold at most 10 users.
C18_UserListFilters ==
    [][ (page'.status = "ok" /\ page'.GET.status \in {<<>>, ACTIVE, INACTIVE}) =>
           LET q == page'.GET.q
               status == page'.GET.status
           IN  /\ page'.filtered \subseteq {u.id : u \in OfStatus(status)}
               /\ q # <<>> =>
                     \A u \in OfStatus(status) : u.id \in page'.filtered <=> Occurs(q, u)
               /\ Paged(page', page'.GET.page) ]_vars

\* C18 as amended: the same, with q taken without its surrounding blanks: a q
\* of blanks only filters nothing, and any other q is searched for without
\* the blanks around it.
C18_UserListFiltersStripped ==
    [][ (page'.status = "ok" /\ page'.GET.status \in {<<>>, ACTIVE, INACTIVE}) =>
           LET q == Strip(page'.GET.q)
               status == page'.GET.status
           IN  /\ page'.filtered \subseteq {u.id : u \in OfStatus(status)}
               /\ q # <<>> =>
                     \A u \in OfStatus(status) : u.id \in page'.filtered <=> Occurs(q, u)
               /\ q = <<>> => page'.filtered = {u.id : u \in OfStatus(status)}
               /\ Paged(page', page'.GET.page) ]_vars

\* C18 witness: a search for a term typed with a blank before it has left
\* out some users and its result fills a first page and part of a second
\* one, which is shown.
C18_Witness ==
    /\ page.status = "ok"
    /\ Strip(page.GET.q) # page.GET.q
    /\ page.num_pages = 2
    /\ page.count < Cardinality(users)
    /\ Len(page.users) < paginate_by
    /\ Len(page.users) > 0

\* The data is valid for the user pk (NoUser for a new user): a username and
\* a well-formed e-mail address that no other user has.
ValidUserData(pk, f) ==
    /\ f.username # <<>>
    /\ ValidEmail(Strip(f.email))
    /\ \A u \in users :
          u.id # pk => /\ u.username # f.username
                       /\ Lower(u.email) # Lower(Strip(f.email))

\* The row stores what was submitted, the e-mail address without the blanks
\* around it.
Stores(u, f) ==
    /\ u.username = f.username
    /\ u.email = Strip(f.email)
    /\ u.first_name = f.first_name
    /\ u.last_name = f.last_name
    /\ u.is_active = f.is_active
    /\ u.is_staff = f.is_staff

\* C20: from a staff session, valid data posted to user-create adds exactly
\* one user, which stores the submitted fields, and reports 'created'; valid
\* data posted to user-update changes the stored fields of that user and of
\* no other and reports 'updated'.
C20_CreateAndUpdate ==
    [][ \A k \in SessionKeys, f \in UserForms :
           /\ (IsStaffSession(k) /\ ValidUserData(NoUser, f) /\ UserCreateView(k, f)) =>
                 /\ resp'.status = "created"
                 /\ users \subseteq users'
                 /\ \E u \in users' \ users :
                       /\ users' = users \cup {u}
                       /\ Stores(u, f)
                       /\ \A v \in users : v.id # u.id
           /\ \A pk \in UserKeys :
                 (/\ IsStaffSession(k)
                  /\ \E u \in users : u.id = pk
                  /\ ValidUserData(pk, f)
                  /\ UserUpdateView(k, pk, f)) =>
                    /\ resp'.status = "updated"
                    /\ {u \in users' : u.id # pk} = {u \in users : u.id # pk}
                    /\ \E u \in users' :
                          /\ u.id = pk
                          /\ Stores(u, f)
                          /\ \A v \in users' : v.id = pk => v = u
                          /\ \A v \in users : v.id = pk =>
                                u.password = v.password /\ u.date_joined = v.date_joined ]_vars

\* C20 witness: the dashboard has created a user and has then updated a user.
C20_Witness ==
    /\ resp.status = "updated"
    /\ Cardinality(users) > Cardinality(InitialUsers)

\* What an order keeps of the checked-out cart: its totals and its address.
Snapshot(o) ==
    [subtotal |-> o.subtotal, discount |-> o.discount, total |-> o.total,
     shipping_address |-> o.shipping_address]

\* C12: an order is a snapshot of the checked-out cart: no request of the
\* storefront or of the dashboard (cart add, update, remove, later checkouts,
\* product edits and deletes, order status updates) changes or removes its
\* order items, their quantities and unit prices, its subtotal, discount and
\* total or its shipping address.
C12_OrderSnapshot ==
    [][ \A o \in orders :
           /\ \E n \in orders' : n.id = o.id
           /\ \A n \in orders' : n.id = o.id => Snapshot(n) = Snapshot(o)
           /\ OrderItemsOf(orderItems', o.id) = OrderItemsOf(orderItems, o.id)
           /\ \E a \in addresses' : a.id = o.shipping_address ]_vars

\* C12 witness: the price of a product was changed in the dashboard after an
\* order with an item of that product, at the old price, was created.
C12_Witness ==
    /\ resp.status = "updated"
    /\ \E i \in orderItems :
          /\ i.product \in DOMAIN product
          /\ i.unit_price # product[i.product].price

\* C13 as stated: every order is created with the status 'pending' and no
\* request changes the status of an order afterwards.
C13_StatusFrozen ==
    [][ /\ \A n \in orders' :
              (\A o \in orders : o.id # n.id) => n.status = PENDING
        /\ \A o \in orders, n \in orders' : n.id = o.id => n.status = o.status ]_vars

\* C13 as amended: every order is created with the status 'pending'; its
\* status changes only by the order status update of the dashboard, sent
\* from the session of an active staff user, to a status of Order.Status; no
\* request of the storefront changes it.
C13_StatusByStaffOnly ==
    [][ /\ \A n \in orders' :
              (\A o \in orders : o.id # n.id) => n.status = PENDING
        /\ \A o \in orders, n \in orders' :
              (n.id = o.id /\ n.status # o.status) =>
                 /\ IsStaffSession(StaffKey)
                 /\ OrderAdminDetailView(StaffKey, o.id, n.status)
                 /\ n.status \in OrderStatuses ]_vars

\* C13 witness: an order that was created pending has been given another
\* status in the dashboard.
C13_Witness ==
    /\ resp.status = "updated"
    /\ \E o \in orders : o.status # PENDING

\* C19: a POST to the user-delete view from the session of an active staff
\* user, for a user that exists, removes the user and reports the deletion,
\* whatever carts, addresses and orders the user owns.
C19_DeleteAnyUser ==
    [][ \A pk \in UserKeys :
           (/\ IsStaffSession(StaffKey)
            /\ \E u \in users : u.id = pk
            /\ UserDeleteView(StaffKey, pk)) =>
              /\ resp'.status = "deleted"
              /\ \A u \in users' : u.id # pk ]_vars

\* The requests whose CartManager is built for the user.
BuiltFor(u) == {r \in Requests : building[r].pc = "built" /\ building[r].user = u}

\* C14: there is at most one cart of a user, also when first requests of the
\* user overlap, and every CartManager built for the user, from any session,
\* holds that cart.
C14_OneCartPerUser ==
    \A u \in Users :
       /\ Cardinality({c \in carts : c.user = u}) <= 1
       /\ \A r \in BuiltFor(u) : \E c \in carts : c.user = u /\ c.id = building[r].cart

\* C14 witness: two first requests of one user from two sessions overlapped:
\* one has its manager built on the cart it created, the insert of the other
\* failed on the constraint and it is about to read that cart.
C14_Witness ==
    /\ Cardinality(carts) = 1
    /\ \E r, s \in Requests :
          /\ building[r].pc = "reget"
          /\ building[s].pc = "built"
          /\ building[r].user = building[s].user
          /\ building[r].session_key # building[s].session_key
          /\ \E c \in carts : c.id = building[s].cart /\ c.user = building[r].user

\* C15: there is at most one cart without user of a session key, also when
\* two first requests with the session key overlap, and the construction of
\* a CartManager for the session never fails.
C15_OneCartPerSession ==
    /\ \A k \in SessionKeys :
          Cardinality({c \in carts : c.user = NoUser /\ c.session_key = k}) <= 1
    /\ resp.status # "MultipleObjectsReturned"

\* The items of product p in the cart of user u, and all the other items.
ItemsFor(rows, allCarts, u, p) ==
    {i \in rows : i.product = p /\ \E c \in allCarts : c.id = i.cart /\ c.user = u}

Others(rows, allCarts, u, p) == rows \ ItemsFor(rows, allCarts, u, p)

\* C21: add_product(product, q) takes q < 1 as 1; it creates the item of the
\* product with that quantity when the cart has none and adds the quantity
\* to the item otherwise; either way the unit_price of the item is the price
\* of the product; the items of other products and of other carts stay; the
\* stock of the product is not looked at.
C21_AddProduct ==
    [][ \A c \in Clients, p \in Products, q \in 0..MaxQty :
           AddProduct(c, p, q) =>
              LET n == IF q < 1 THEN 1 ELSE q
                  old == ItemsFor(cartItems, carts, c.user, p)
                  new == ItemsFor(cartItems', carts', c.user, p)
              IN  /\ Cardinality(new) = 1
                  /\ \A i \in new :
                        /\ i.unit_price = product[p].price
                        /\ old = {} => i.quantity = n
                        /\ \A o \in old : i.quantity = o.quantity + n
                  /\ Others(cartItems', carts', c.user, p) = Others(cartItems, carts, c.user, p)
                  /\ product' = product ]_vars

\* C21 witness: add_product has raised the quantity of an item above the
\* stock of its product and has given it the price that the product has
\* since the dashboard changed it, beside the cart of another user.
C21_Witness ==
    /\ resp.status = "item"
    /\ Cardinality(carts) > 1
    /\ \E i \in cartItems :
          /\ i.quantity > product[i.product].stock
          /\ i.unit_price = product[i.product].price
          /\ i.unit_price # InitialProducts[i.product].price

\* C22: update_quantity(product, q) changes nothing and returns None when the
\* cart has no item of the product; it deletes the item when q < 1; it sets
\* the quantity to q and the unit_price to the price of the product when
\* q >= 1.  remove_product deletes the item of the product if there is one,
\* and a second call changes nothing more.  Other items stay.
C22_UpdateAndRemove ==
    [][ \A c \in Clients, p \in Products :
           LET old == ItemsFor(cartItems, carts, c.user, p)
               new == ItemsFor(cartItems', carts', c.user, p)
               frame == Others(cartItems', carts', c.user, p)
                           = Others(cartItems, carts, c.user, p)
           IN  /\ \A q \in 0..MaxQty :
                     UpdateQuantity(c, p, q) =>
                        /\ frame
                        /\ old = {} => new = {} /\ resp'.status = "None"
                        /\ (old # {} /\ q < 1) => new = {}
                        /\ (old # {} /\ q >= 1) =>
                              /\ Cardinality(new) = 1
                              /\ \A i \in new : /\ i.quantity = q
                                                /\ i.unit_price = product[p].price
               /\ RemoveProduct(c, p) =>
                     /\ frame
                     /\ new = {}
                     /\ \A cart \in carts' :
                           cart.user = c.user =>
                              remove_product(DB', cart.id, p).cartItems = cartItems' ]_vars

\* C22 witness: update_quantity has set the quantity of an item that had
\* another quantity and an older price, beside another item of the cart.
C22_Witness ==
    /\ resp.status = "saved"
    /\ \E i, j \in cartItems :
          /\ i.cart = j.cart
          /\ i.product # j.product
          /\ i.quantity = 1
          /\ i.unit_price # InitialProducts[i.product].price

\* C26: a cart holds at most one item of a product and every cart item has a
\* quantity of at least 1.
C26_CartItemsWellFormed ==
    /\ \A i, j \in cartItems : (i.cart = j.cart /\ i.product = j.product) => i = j
    /\ \A i \in cartItems : i.quantity >= 1

\* C26 witness: the checkout of a cart has left behind a cart that was
\* filled again, with two items.
C26_Witness ==
    /\ orders # {}
    /\ Cardinality(cartItems) > 1

\* A request of client c that calls add_product or update_quantity for p.
PricingStep(c, p) ==
    \E q \in 1..MaxQty : AddToCartView(c, p, q) \/ CartViewUpdate(c, p, q)

\* C23: prices are taken at cart time: add_product and update_quantity give
\* the item the price the product has then; nothing else changes the
\* unit_price of a cart item, and a change of the price of the product in
\* the dashboard leaves the cart items and the totals of the carts as they
\* were; checkout_cart records the unit_price of the cart item in the order
\* item.
C23_PriceSnapshot ==
    [][ /\ \A p \in EditedProducts, f \in ProductForms :
              ProductAdminUpdateView(StaffKey, p, f) =>
                 /\ cartItems' = cartItems
                 /\ \A cart \in carts : totals(DB', cart.id) = totals(DB, cart.id)
        /\ \A c \in Shoppers :
              /\ Created(c) =>
                    Lines(OrderItemsOf(orderItems' \ orderItems, resp'.order))
                       = Lines(ItemsOf(DB, CartOf(c)))
              /\ \A p \in DOMAIN product :
                    (PricingStep(c, p) /\ resp'.status = "ok") =>
                       \A i \in ItemsFor(cartItems', carts', c.user, p) :
                          i.unit_price = product[p].price
        /\ \A i \in cartItems, j \in cartItems' :
              (j.cart = i.cart /\ j.product = i.product /\ j.unit_price # i.unit_price) =>
                 \E c \in Shoppers :
                    /\ PricingStep(c, i.product)
                    /\ i \in ItemsFor(cartItems, carts, c.user, i.product) ]_vars

\* C23 witness: an order was created whose item has the price at which the
\* product went into the cart, not the price the product has at checkout.
C23_Witness ==
    /\ resp.status = "created"
    /\ \E i \in orderItems :
          /\ i.order = resp.order
          /\ i.product \in DOMAIN product
          /\ i.unit_price # product[i.product].price

\* C24: every committed order is consistent with its own items: its subtotal
\* is the sum of unit_price * quantity over its order items and its total is
\* the subtotal less the discount, also when another request changes the
\* cart between the totals and the read of the items.
C24_OrderConsistent ==
    \A o \in orders :
       /\ o.subtotal = SumSubtotals(OrderItemsOf(orderItems, o.id))
       /\ o.total = o.subtotal - o.discount

\* C25: a cart's contents are checked out once: the items of an order that
\* is committed are items the cart still holds, none of them taken by the
\* order of an overlapping checkout, and the stock of every product has gone
\* down by the quantities of the committed order items.
C25_CheckedOutOnce ==
    [][ \A r \in Requests :
           CheckoutCommit(r) =>
              /\ {i.product : i \in OrderItemsOf(orderItems', resp'.order)}
                    \subseteq {i.product : i \in ItemsOf(DB, building[r].cart)}
              /\ \A p \in Products :
                    InitialProducts[p].stock = product'[p].stock
                       + SumQuantities({i \in orderItems' : i.product = p}) ]_vars

\* The categories above category id: its parent, the parent's parent, ...
RECURSIVE Ancestors(_, _, _)
Ancestors(rows, id, turns) ==
    LET up == {r.parent : r \in {x \in rows : x.id = id /\ x.parent # NULL}}
    IN  IF turns = 0 THEN up
        ELSE up \cup UNION {Ancestors(rows, a, turns - 1) : a \in up}

\* C27: after any dashboard category create and update the parent relation
\* has no cycle, get_descendants returns for every category, naming each of
\* its active descendants once, and the catalogue page of a category answers.
C27_CategoryTree ==
    /\ \A r \in category : r.id \notin Ancestors(category, r.id, Cardinality(category))
    /\ \A r \in category :
          LET d == get_descendants(category, r.id, FALSE)
          IN  /\ d.returns
              /\ \A i, j \in DOMAIN d.descendants :
                    d.descendants[i] = d.descendants[j] => i = j
    /\ resp.status # "no response"


\* C28: every order that CheckoutView has created belongs to a user that is
\* logged in and has at least one order item.
C28_OrderHasItems ==
    \A o \in orders :
       /\ o.user # Anonymous
       /\ OrderItemsOf(orderItems, o.id) # {}


\* An e-mail address that a user other than pk has, whatever the case.
Taken(pk, email) == \E u \in users : u.id # pk /\ Lower(u.email) = Lower(email)

====
